---- MODULE Spec2Model ----
(***************************************************************************)
(* Pairwise aligner of Bio/Align/_aligners.c: the score-only recurrences,  *)
(* the traceback-producing recurrences, the trace tables and the           *)
(* PathGenerator (next, reset, len) for Needleman-Wunsch / Smith-Waterman, *)
(* Gotoh and Waterman-Smith-Beyer in global and local mode.                *)
(*                                                                         *)
(* Scores are doubles in the source.  Here they are integers: every score  *)
(* parameter is an even integer, so epsilon = 1 is a tolerance below the   *)
(* smallest non-zero score difference, epsilon = 2 is a tolerance that     *)
(* reaches the next score, and epsilon = 0 is no tolerance at all.         *)
(*                                                                         *)
(* Spec is the object protocol (score, align, next, reset, len) on one     *)
(* aligner and one pair of sequences; SpecSelect applies the SELECT_TRACE  *)
(* macros to a triple of candidate scores; SpecConfigure assigns the gap   *)
(* attributes, SpecSubstitution the match and mismatch scores, SpecMatrix  *)
(* the match and mismatch scores and the substitution matrix, and          *)
(* SpecScenario runs the object protocol on the inputs of the tests.       *)
(***************************************************************************)
EXTENDS Integers, Sequences, FiniteSets, TLC

(* ----------------------------- bounds ---------------------------------- *)
MaxLen == 3
SsizeBits == 4
MaxRepeat == 5

(* ------------------------ program constants ---------------------------- *)
HORIZONTAL == 1
VERTICAL == 2
DIAGONAL == 4
STARTPOINT == 8
ENDPOINT == 16
M_MATRIX == 1
Ix_MATRIX == 2
Iy_MATRIX == 4
DONE == 3
NONE == 7
OVERFLOW_ERROR == -1
MEMORY_ERROR == -2
\* stand-in for float.h's DBL_MAX: larger than any finite score of the model
DBL_MAX == 1000000
\* PY_SSIZE_T_MAX of a Py_ssize_t that is SsizeBits wide
PY_SSIZE_T_MAX == 2^(SsizeBits - 1) - 1

(* ------------------------- bits and doubles ---------------------------- *)
\* trace & bit
Has(trace, bit) == (trace \div bit) % 2 = 1
\* trace | bit
BitOr(trace, bit) == IF Has(trace, bit) THEN trace ELSE trace + bit
\* trace & ~bit
BitClear(trace, bit) == IF Has(trace, bit) THEN trace - bit ELSE trace
\* trace & bit, as a value
BitAnd(trace, bit) == IF Has(trace, bit) THEN bit ELSE 0

\* x + y in doubles: -DBL_MAX absorbs every finite score of the model
FAdd(x, y) ==
    IF x = -DBL_MAX \/ y = -DBL_MAX THEN -DBL_MAX ELSE x + y

\* CHARINDEX: letters are kept as their indices 0..25
CHARINDEX(s) == s

\* SAFE_ADD(t, s): the new value of s
SAFE_ADD(t, s) ==
    IF s # OVERFLOW_ERROR
    THEN IF t > PY_SSIZE_T_MAX - s THEN OVERFLOW_ERROR ELSE s + t
    ELSE s

\* the SELECT_TRACE_* comparison of a candidate against the running best
SelectStep(best, temp, bit, epsilon) ==
    IF temp > FAdd(best.score, epsilon) THEN [score |-> temp, trace |-> bit]
    ELSE IF temp > FAdd(best.score, -epsilon)
         THEN [score |-> best.score, trace |-> BitOr(best.trace, bit)]
         ELSE best

\* SELECT_SCORE_GLOBAL: a variant that leaves the second score out
Max3_without_second(score1, score2, score3) ==
    IF score3 > score1 THEN score3 ELSE score1

\* SELECT_SCORE_GLOBAL
Max3(score1, score2, score3) ==
    LET s12 == IF score2 > score1 THEN score2 ELSE score1
    IN IF score3 > s12 THEN score3 ELSE s12

(* ----------------------------- Aligner --------------------------------- *)
\* letters of the model: 'A', 'C', 'G', 'T' and 'X' as CHARINDEX values
Letters == {0, 2, 6, 19, 23}

\* self->letters: NULL (no substitution matrix installed), or the array
\* of flags of the letters of the installed matrix, as << the set of the
\* letters flagged >>
NoLetters == << >>

\* Aligner_init: the object after construction with (match, mismatch)
Aligner_init(match, mismatch) ==
    [mode |-> "Global", algorithm |-> "Unknown",
     match |-> match, mismatch |-> mismatch, epsilon |-> 1,
     target_open_gap_score |-> 0, target_extend_gap_score |-> 0,
     target_left_open_gap_score |-> 0, target_left_extend_gap_score |-> 0,
     target_right_open_gap_score |-> 0, target_right_extend_gap_score |-> 0,
     query_open_gap_score |-> 0, query_extend_gap_score |-> 0,
     query_left_open_gap_score |-> 0, query_left_extend_gap_score |-> 0,
     query_right_open_gap_score |-> 0, query_right_extend_gap_score |-> 0,
     target_gap_function |-> "NULL", query_gap_function |-> "NULL",
     substitution_matrix |->
        [i \in Letters |-> [j \in Letters |->
            IF i = 23 /\ j = 23 THEN 0
            ELSE IF i = j THEN match ELSE mismatch]],
     letters |-> NoLetters]

\* Aligner_set_match_score: a variant that leaves out the reset of the
\* score of X against X
Aligner_set_match_score_every_letter(self, match) ==
    [self EXCEPT
       !.match = match,
       !.letters = NoLetters,
       !.substitution_matrix =
           [i \in Letters |-> [j \in Letters |->
               IF i = j THEN match ELSE @[i][j]]]]

\* Aligner_set_match_score: the diagonal, then X against X; the letters
\* of an installed matrix are freed
Aligner_set_match_score(self, match) ==
    [self EXCEPT
       !.match = match,
       !.letters = NoLetters,
       !.substitution_matrix =
           [i \in Letters |-> [j \in Letters |->
               IF i = 23 /\ j = 23 THEN 0
               ELSE IF i = j THEN match ELSE @[i][j]]]]

\* Aligner_set_mismatch_score: every pair of different letters, then the
\* row and the column of X; the letters of an installed matrix are freed
Aligner_set_mismatch_score(self, mismatch) ==
    [self EXCEPT
       !.mismatch = mismatch,
       !.letters = NoLetters,
       !.substitution_matrix =
           [i \in Letters |-> [j \in Letters |->
               IF i = 23 \/ j = 23 THEN 0
               ELSE IF i # j THEN mismatch ELSE @[i][j]]]]

\* Aligner_get_match_score: a ValueError while a matrix is installed
Aligner_get_match_score(self) ==
    IF self.letters # NoLetters THEN "ValueError" ELSE self.match

\* Aligner_get_mismatch_score: a ValueError while a matrix is installed
Aligner_get_mismatch_score(self) ==
    IF self.letters # NoLetters THEN "ValueError" ELSE self.mismatch

\* Aligner_set_substitution_matrix: values is the dictionary, a function
\* from pairs of letters to scores.  The letters of its keys are flagged;
\* among flagged letters a pair takes its score, else the score of the
\* mirrored pair, else 0; the entries of other letters, match and
\* mismatch are left as they are
Aligner_set_substitution_matrix(self, values) ==
    LET flags == DOMAIN values
        letters == { k[1] : k \in flags } \cup { k[2] : k \in flags }
    IN  [self EXCEPT
           !.letters = << letters >>,
           !.substitution_matrix =
               [i \in Letters |-> [j \in Letters |->
                   IF i \notin letters \/ j \notin letters THEN @[i][j]
                   ELSE IF << i, j >> \in flags THEN values[<< i, j >>]
                   ELSE IF << j, i >> \in flags THEN values[<< j, i >>]
                   ELSE 0]]]

(* -------------------------- PathGenerator ------------------------------ *)
\* the object before any align() call
NoPaths ==
    [algorithm |-> "Unknown", mode |-> "Global", nA |-> 0, nB |-> 0,
     iA |-> 0, iB |-> 0, length |-> 0]

\* a faulty _create_path that records every cell of the stored path, not
\* only the cells where the direction changes (sensitivity test of C9)
RECURSIVE create_path_every_cell(_, _, _)
create_path_every_cell(M, i, j) ==
    LET path == M[i][j].path
    IN  IF path = HORIZONTAL
        THEN << << i, j >> >> \o create_path_every_cell(M, i, j + 1)
        ELSE IF path = VERTICAL
        THEN << << i, j >> >> \o create_path_every_cell(M, i + 1, j)
        ELSE IF path = DIAGONAL
        THEN << << i, j >> >> \o create_path_every_cell(M, i + 1, j + 1)
        ELSE << << i, j >> >>

\* _create_path: the coordinates where the direction stored in path changes
RECURSIVE create_path_loop(_, _, _, _)
create_path_loop(M, i, j, direction) ==
    LET path == M[i][j].path
        row == IF path # direction THEN << <<i, j>> >> ELSE << >>
    IN  IF path = HORIZONTAL THEN row \o create_path_loop(M, i, j + 1, path)
        ELSE IF path = VERTICAL THEN row \o create_path_loop(M, i + 1, j, path)
        ELSE IF path = DIAGONAL
             THEN row \o create_path_loop(M, i + 1, j + 1, path)
        ELSE row
create_path(M, i, j) == create_path_loop(M, i, j, 0)

\* PathGenerator_create_NWSW: a variant that leaves the STARTPOINT traces
\* of a local table out
PathGenerator_create_NWSW_without_startpoints(nA, nB, mode, junk) ==
    [algorithm |-> "NeedlemanWunschSmithWaterman", mode |-> mode,
     nA |-> nA, nB |-> nB, iA |-> 0, iB |-> 0, length |-> 0,
     M |-> [i \in 0..nA |-> [j \in 0..nB |->
              [trace |-> IF mode = "Local" THEN 0
                         ELSE IF j = 0 /\ i = 0 THEN 0
                         ELSE IF j = 0 THEN VERTICAL
                         ELSE IF i = 0 THEN HORIZONTAL
                         ELSE 0,
               path |-> IF i = 0 /\ j = 0 THEN 0 ELSE junk]]]]

\* PathGenerator_create_NWSW: border traces; only M[0][0].path is written,
\* every other path field holds whatever the allocator left (junk)
PathGenerator_create_NWSW(nA, nB, mode, junk) ==
    [algorithm |-> "NeedlemanWunschSmithWaterman", mode |-> mode,
     nA |-> nA, nB |-> nB, iA |-> 0, iB |-> 0, length |-> 0,
     M |-> [i \in 0..nA |-> [j \in 0..nB |->
              [trace |-> IF mode = "Local" THEN STARTPOINT
                         ELSE IF j = 0 /\ i = 0 THEN 0
                         ELSE IF j = 0 THEN VERTICAL
                         ELSE IF i = 0 THEN HORIZONTAL
                         ELSE 0,
               path |-> IF i = 0 /\ j = 0 THEN 0 ELSE junk]]]]

(* ------------------- Needleman-Wunsch, score only ---------------------- *)
\* next cell in row-major order over 1..nA x 1..nB
NextI(i, j, nB) == IF j = nB THEN i + 1 ELSE i
NextJ(i, j, nB) == IF j = nB THEN 1 ELSE j + 1

RECURSIVE needlemanwunsch_score_loop(_, _, _, _, _, _)
needlemanwunsch_score_loop(self, sA, sB, st, i, j) ==
    LET nA == Len(sA)
        nB == Len(sB)
        \* row start: temp = scores[0]; scores[0] = ...
        temp == IF j = 1 THEN st.scores[0] ELSE st.temp
        scores == IF j = 1
                  THEN [st.scores EXCEPT ![0] =
                          IF i < nA
                          THEN i * self.query_left_extend_gap_score
                          ELSE nA * self.query_right_extend_gap_score]
                  ELSE st.scores
        kA == CHARINDEX(sA[i])
        kB == CHARINDEX(sB[j])
        vgap == IF j < nB THEN self.query_extend_gap_score
                ELSE self.query_right_extend_gap_score
        hgap == IF i < nA THEN self.target_extend_gap_score
                ELSE self.target_right_extend_gap_score
        score == Max3(temp + self.substitution_matrix[kA][kB],
                      scores[j] + vgap,
                      scores[j - 1] + hgap)
    IN  IF i > nA THEN st.score
        ELSE needlemanwunsch_score_loop(self, sA, sB,
                 [scores |-> [scores EXCEPT ![j] = score],
                  temp |-> scores[j], score |-> score],
                 NextI(i, j, nB), NextJ(i, j, nB))

\* Aligner_needlemanwunsch_score: a variant that charges the internal
\* extend scores in the last row and the last column too
Aligner_needlemanwunsch_score_internal_only(self, sA, sB) ==
    needlemanwunsch_score_loop(
        [self EXCEPT
           !.target_right_extend_gap_score = self.target_extend_gap_score,
           !.query_right_extend_gap_score = self.query_extend_gap_score],
        sA, sB,
        [scores |-> [j \in 0..Len(sB) |->
                        j * self.target_left_extend_gap_score],
         temp |-> 0, score |-> 0], 1, 1)

Aligner_needlemanwunsch_score(self, sA, sB) ==
    needlemanwunsch_score_loop(self, sA, sB,
        [scores |-> [j \in 0..Len(sB) |->
                        j * self.target_left_extend_gap_score],
         temp |-> 0, score |-> 0], 1, 1)

(* ------------------- Needleman-Wunsch, traceback ----------------------- *)
\* SELECT_TRACE_NEEDLEMAN_WUNSCH: a variant that records every direction
SELECT_TRACE_NEEDLEMAN_WUNSCH_every_direction(diag, horz, vert, epsilon) ==
    [score |-> Max3(diag, horz, vert),
     trace |-> BitOr(BitOr(DIAGONAL, HORIZONTAL), VERTICAL)]

\* SELECT_TRACE_NEEDLEMAN_WUNSCH: diagonal, then horizontal, then vertical
SELECT_TRACE_NEEDLEMAN_WUNSCH(diag, horz, vert, epsilon) ==
    SelectStep(SelectStep([score |-> diag, trace |-> DIAGONAL],
                          horz, HORIZONTAL, epsilon),
               vert, VERTICAL, epsilon)

RECURSIVE needlemanwunsch_align_loop(_, _, _, _, _, _)
needlemanwunsch_align_loop(self, sA, sB, st, i, j) ==
    LET nA == Len(sA)
        nB == Len(sB)
        temp == IF j = 1 THEN st.scores[0] ELSE st.temp
        scores == IF j = 1
                  THEN [st.scores EXCEPT ![0] =
                          i * self.query_left_extend_gap_score]
                  ELSE st.scores
        kA == CHARINDEX(sA[i])
        kB == CHARINDEX(sB[j])
        hgap == IF i < nA THEN self.target_extend_gap_score
                ELSE self.target_right_extend_gap_score
        vgap == IF j < nB THEN self.query_extend_gap_score
                ELSE self.query_right_extend_gap_score
        sel == SELECT_TRACE_NEEDLEMAN_WUNSCH(
                   temp + self.substitution_matrix[kA][kB],
                   scores[j - 1] + hgap, scores[j] + vgap, self.epsilon)
    IN  IF i > nA THEN st
        ELSE needlemanwunsch_align_loop(self, sA, sB,
                 [scores |-> [scores EXCEPT ![j] = sel.score],
                  temp |-> scores[j], score |-> sel.score,
                  M |-> [st.M EXCEPT ![i][j].trace = sel.trace]],
                 NextI(i, j, nB), NextJ(i, j, nB))

\* returns the pair ("fN", score, paths) as a record
Aligner_needlemanwunsch_align(self, sA, sB, junk) ==
    LET Finish(paths, st) ==
            [score |-> st.score,
             paths |-> [paths EXCEPT
                          !.M = [st.M EXCEPT ![paths.nA][paths.nB].path = 0]]]
        Fill(paths) ==
            Finish(paths, needlemanwunsch_align_loop(self, sA, sB,
                [scores |-> [j \in 0..Len(sB) |->
                                j * self.target_left_extend_gap_score],
                 temp |-> 0, score |-> 0, M |-> paths.M], 1, 1))
    IN  Fill(PathGenerator_create_NWSW(Len(sA), Len(sB), "Global", junk))

(* --------------------- PathGenerator: NW next -------------------------- *)
\* a NULL return of next(): no path (StopIteration unless an error is set)
NULL == << >>

\* the pruning loop: walk the stored path forward from (i, j) looking for
\* the first cell that offers a not yet used predecessor
RECURSIVE needlemanwunsch_prune(_, _, _, _)
needlemanwunsch_prune(M, i, j, path) ==
    LET ni == IF path = HORIZONTAL THEN i ELSE i + 1
        nj == IF path = VERTICAL THEN j ELSE j + 1
        trace == M[ni][nj].trace
    IN  IF path = HORIZONTAL /\ Has(trace, VERTICAL)
        THEN [found |-> TRUE, i |-> ni - 1, j |-> nj,
              M |-> [M EXCEPT ![ni - 1][nj].path = VERTICAL]]
        ELSE IF path = HORIZONTAL /\ Has(trace, DIAGONAL)
        THEN [found |-> TRUE, i |-> ni - 1, j |-> nj - 1,
              M |-> [M EXCEPT ![ni - 1][nj - 1].path = DIAGONAL]]
        ELSE IF path = VERTICAL /\ Has(trace, DIAGONAL)
        THEN [found |-> TRUE, i |-> ni - 1, j |-> nj - 1,
              M |-> [M EXCEPT ![ni - 1][nj - 1].path = DIAGONAL]]
        ELSE IF M[ni][nj].path = 0
        THEN [found |-> FALSE, i |-> ni, j |-> nj, M |-> M]
        ELSE needlemanwunsch_prune(M, ni, nj, M[ni][nj].path)

\* a variant of the traceback that tries vertical before horizontal
RECURSIVE needlemanwunsch_traceback_vertical_first(_, _, _)
needlemanwunsch_traceback_vertical_first(M, i, j) ==
    LET trace == M[i][j].trace
    IN  IF Has(trace, VERTICAL)
        THEN needlemanwunsch_traceback_vertical_first(
                 [M EXCEPT ![i - 1][j].path = VERTICAL], i - 1, j)
        ELSE IF Has(trace, HORIZONTAL)
        THEN needlemanwunsch_traceback_vertical_first(
                 [M EXCEPT ![i][j - 1].path = HORIZONTAL], i, j - 1)
        ELSE IF Has(trace, DIAGONAL)
        THEN needlemanwunsch_traceback_vertical_first(
                 [M EXCEPT ![i - 1][j - 1].path = DIAGONAL], i - 1, j - 1)
        ELSE M

\* follow the traceback to the origin: horizontal, then vertical, then
\* diagonal
RECURSIVE needlemanwunsch_traceback(_, _, _)
needlemanwunsch_traceback(M, i, j) ==
    LET trace == M[i][j].trace
    IN  IF Has(trace, HORIZONTAL)
        THEN needlemanwunsch_traceback(
                 [M EXCEPT ![i][j - 1].path = HORIZONTAL], i, j - 1)
        ELSE IF Has(trace, VERTICAL)
        THEN needlemanwunsch_traceback(
                 [M EXCEPT ![i - 1][j].path = VERTICAL], i - 1, j)
        ELSE IF Has(trace, DIAGONAL)
        THEN needlemanwunsch_traceback(
                 [M EXCEPT ![i - 1][j - 1].path = DIAGONAL], i - 1, j - 1)
        ELSE M

\* a variant of the next() of Needleman-Wunsch that, once the paths are
\* used up, clears the stored path instead of marking it DONE
PathGenerator_next_needlemanwunsch_restarting(self) ==
    LET Return(M) ==
            [paths |-> [self EXCEPT !.M = M],
             result |-> create_path(M, 0, 0), error |-> ""]
        Pruned(pr) ==
            IF ~pr.found
            THEN [paths |-> [self EXCEPT !.M[0][0].path = 0],
                  result |-> NULL, error |-> ""]
            ELSE Return(needlemanwunsch_traceback(pr.M, pr.i, pr.j))
        Start(path) ==
            IF path = DONE
            THEN [paths |-> self, result |-> NULL, error |-> ""]
            ELSE IF path = 0
            THEN Return(needlemanwunsch_traceback(self.M, self.nA, self.nB))
            ELSE Pruned(needlemanwunsch_prune(self.M, 0, 0, path))
    IN  Start(self.M[0][0].path)

PathGenerator_next_needlemanwunsch(self) ==
    LET Return(M) ==
            [paths |-> [self EXCEPT !.M = M],
             result |-> create_path(M, 0, 0), error |-> ""]
        Pruned(pr) ==
            IF ~pr.found
            THEN [paths |-> [self EXCEPT !.M[0][0].path = DONE],
                  result |-> NULL, error |-> ""]
            ELSE Return(needlemanwunsch_traceback(pr.M, pr.i, pr.j))
        Start(path) ==
            IF path = DONE
            THEN [paths |-> self, result |-> NULL, error |-> ""]
            ELSE IF path = 0
            THEN Return(needlemanwunsch_traceback(self.M, self.nA, self.nB))
            ELSE Pruned(needlemanwunsch_prune(self.M, 0, 0, path))
    IN  Start(self.M[0][0].path)

(* -------------------- PathGenerator: NW length ------------------------- *)
RECURSIVE needlemanwunsch_length_loop(_, _, _, _)
needlemanwunsch_length_loop(self, st, i, j) ==
    LET nB == self.nB
        trace == self.M[i][j].trace
        \* j = 0 opens the row: count from counts[0], temp = counts[0]
        c1 == IF j > 0 /\ Has(trace, HORIZONTAL)
              THEN SAFE_ADD(st.counts[j - 1], 0) ELSE 0
        c2 == IF Has(trace, VERTICAL) THEN SAFE_ADD(st.counts[j], c1) ELSE c1
        c3 == IF j > 0 /\ Has(trace, DIAGONAL)
              THEN SAFE_ADD(st.temp, c2) ELSE c2
    IN  IF i > self.nA THEN st.count
        ELSE needlemanwunsch_length_loop(self,
                 [counts |-> [st.counts EXCEPT ![j] = c3],
                  temp |-> st.counts[j], count |-> c3],
                 IF j = nB THEN i + 1 ELSE i, IF j = nB THEN 0 ELSE j + 1)

RECURSIVE needlemanwunsch_length_row0(_, _, _)
needlemanwunsch_length_row0(self, counts, j) ==
    IF j > self.nB THEN counts
    ELSE needlemanwunsch_length_row0(self,
             [counts EXCEPT ![j] =
                 IF Has(self.M[0][j].trace, HORIZONTAL)
                 THEN SAFE_ADD(counts[j - 1], 0) ELSE 0], j + 1)

PathGenerator_needlemanwunsch_length(self) ==
    needlemanwunsch_length_loop(self,
        [counts |-> needlemanwunsch_length_row0(self,
                        [j \in 0..self.nB |-> IF j = 0 THEN 1 ELSE 0], 1),
         temp |-> 0, count |-> 0], 1, 0)

(* --------------------- Smith-Waterman, score only ---------------------- *)
\* SELECT_SCORE_LOCAL3 / SELECT_SCORE_LOCAL1: clamp at zero
LocalClamp(score) == IF score < 0 THEN 0 ELSE score
Larger(a, b) == IF a > b THEN a ELSE b

RECURSIVE smithwaterman_score_loop(_, _, _, _, _, _)
smithwaterman_score_loop(self, sA, sB, st, i, j) ==
    LET nA == Len(sA)
        nB == Len(sB)
        temp == IF j = 1 THEN 0 ELSE st.temp
        kA == CHARINDEX(sA[i])
        kB == CHARINDEX(sB[j])
        diag == temp + self.substitution_matrix[kA][kB]
        raw == IF i < nA /\ j < nB
               THEN Max3(diag, st.scores[j] + self.query_extend_gap_score,
                         st.scores[j - 1] + self.target_extend_gap_score)
               ELSE diag
        score == LocalClamp(raw)
    IN  IF i > nA THEN st.maximum
        ELSE smithwaterman_score_loop(self, sA, sB,
                 [scores |-> [st.scores EXCEPT ![j] = score],
                  temp |-> st.scores[j],
                  maximum |-> Larger(st.maximum, score)],
                 NextI(i, j, nB), NextJ(i, j, nB))

Aligner_smithwaterman_score(self, sA, sB) ==
    smithwaterman_score_loop(self, sA, sB,
        [scores |-> [j \in 0..Len(sB) |-> 0], temp |-> 0, maximum |-> 0],
        1, 1)

(* --------------------- Smith-Waterman, traceback ----------------------- *)
\* cell (a, b) lies in the row-major range [(im, jm), (i, j))
InRange(a, b, im, jm, i, j) ==
    /\ (a > im \/ (a = im /\ b >= jm))
    /\ (a < i \/ (a = i /\ b < j))

\* the two for-loops that clear ENDPOINT from (im, jm) up to (i, j)
ClearEndpoints(M, im, jm, i, j) ==
    [a \in DOMAIN M |-> [b \in DOMAIN M[a] |->
        IF InRange(a, b, im, jm, i, j)
        THEN [M[a][b] EXCEPT !.trace = BitClear(M[a][b].trace, ENDPOINT)]
        ELSE M[a][b]]]

\* SELECT_TRACE_SMITH_WATERMAN_HVD and SELECT_TRACE_SMITH_WATERMAN_D
\* (hvd tells which); st carries scores, temp, M, maximum, im, jm
SELECT_TRACE_SMITH_WATERMAN(self, st, temp, sub, hvd, i, j) ==
    LET epsilon == self.epsilon
        Store(sel) ==
            LET low == sel.score < epsilon
                isEnd == ~low /\ Has(sel.trace, DIAGONAL)
                              /\ sel.score > st.maximum - epsilon
                isNew == isEnd /\ sel.score > st.maximum + epsilon
                score == IF low THEN 0 ELSE sel.score
                trace == IF low THEN (IF hvd THEN STARTPOINT ELSE sel.trace)
                         ELSE IF isEnd THEN BitOr(sel.trace, ENDPOINT)
                         ELSE sel.trace
                M1 == IF isNew THEN ClearEndpoints(st.M, st.im, st.jm, i, j)
                      ELSE st.M
            IN  [scores |-> [st.scores EXCEPT ![j] = score],
                 temp |-> st.scores[j],
                 M |-> [M1 EXCEPT ![i][j].trace = trace],
                 maximum |-> Larger(st.maximum, score),
                 im |-> IF isNew THEN i ELSE st.im,
                 jm |-> IF isNew THEN j ELSE st.jm]
        Select(d) ==
            IF hvd
            THEN SelectStep(SelectStep(d,
                     st.scores[j - 1] + self.target_extend_gap_score,
                     HORIZONTAL, epsilon),
                     st.scores[j] + self.query_extend_gap_score,
                     VERTICAL, epsilon)
            ELSE d
    IN  Store(Select([score |-> temp + sub, trace |-> DIAGONAL]))

RECURSIVE smithwaterman_align_loop(_, _, _, _, _, _)
smithwaterman_align_loop(self, sA, sB, st, i, j) ==
    LET nA == Len(sA)
        nB == Len(sB)
        temp == IF j = 1 THEN 0 ELSE st.temp
        sub == self.substitution_matrix[CHARINDEX(sA[i])][CHARINDEX(sB[j])]
    IN  IF i > nA THEN st
        ELSE smithwaterman_align_loop(self, sA, sB,
                 SELECT_TRACE_SMITH_WATERMAN(self, st, temp, sub,
                                             i < nA /\ j < nB, i, j),
                 NextI(i, j, nB), NextJ(i, j, nB))

\* the reachability sweep: path is 1 for a cell reachable from a STARTPOINT
\* that is not an ENDPOINT, traces to unreachable cells are removed
RECURSIVE smithwaterman_sweep(_, _, _, _, _)
smithwaterman_sweep(M, nA, nB, i, j) ==
    LET Cell(t) ==
            IF Has(t, STARTPOINT) \/ Has(t, HORIZONTAL)
               \/ Has(t, VERTICAL) \/ Has(t, DIAGONAL)
            THEN [trace |-> t, path |-> IF Has(t, ENDPOINT) THEN 0 ELSE 1]
            ELSE [trace |-> 0, path |-> 0]
        DropV(t) ==
            Cell(IF M[i - 1][j].path = 0 THEN BitClear(t, VERTICAL) ELSE t)
        DropH(t) ==
            DropV(IF M[i][j - 1].path = 0 THEN BitClear(t, HORIZONTAL) ELSE t)
        DropD(t) ==
            DropH(IF M[i - 1][j - 1].path = 0 THEN BitClear(t, DIAGONAL)
                  ELSE t)
    IN  IF i > nA THEN M
        ELSE smithwaterman_sweep([M EXCEPT ![i][j] = DropD(M[i][j].trace)],
                                 nA, nB, NextI(i, j, nB), NextJ(i, j, nB))

Aligner_smithwaterman_align(self, sA, sB, junk) ==
    LET nA == Len(sA)
        nB == Len(sB)
        Finish(paths, maximum, M) ==
            [score |-> maximum,
             paths |-> [paths EXCEPT !.M =
                          [M EXCEPT ![0][0].path =
                              IF maximum = 0 THEN NONE ELSE 0]]]
        Sweep(paths, st) ==
            Finish(paths, st.maximum,
                   smithwaterman_sweep(
                       [i \in 0..nA |-> [j \in 0..nB |->
                           IF i = 0 \/ j = 0
                           THEN [st.M[i][j] EXCEPT !.path = 1]
                           ELSE st.M[i][j]]], nA, nB, 1, 1))
        Fill(paths) ==
            Sweep(paths, smithwaterman_align_loop(self, sA, sB,
                [scores |-> [j \in 0..nB |-> 0], temp |-> 0, M |-> paths.M,
                 maximum |-> 0, im |-> nA, jm |-> nB], 1, 1))
    IN  Fill(PathGenerator_create_NWSW(nA, nB, "Local", junk))

(* --------------------- PathGenerator: SW next -------------------------- *)
\* the pruning loop of next_smithwaterman; it stops without an alternative
\* at the end of the stored path (path = 0)
RECURSIVE smithwaterman_prune(_, _, _, _)
smithwaterman_prune(M, i, j, path) ==
    LET ni == IF path = HORIZONTAL THEN i ELSE i + 1
        nj == IF path = VERTICAL THEN j ELSE j + 1
        trace == M[ni][nj].trace
    IN  IF path = HORIZONTAL /\ Has(trace, VERTICAL)
        THEN [found |-> TRUE, i |-> ni - 1, j |-> nj,
              M |-> [M EXCEPT ![ni - 1][nj].path = VERTICAL]]
        ELSE IF path = HORIZONTAL /\ Has(trace, DIAGONAL)
        THEN [found |-> TRUE, i |-> ni - 1, j |-> nj - 1,
              M |-> [M EXCEPT ![ni - 1][nj - 1].path = DIAGONAL]]
        ELSE IF path = VERTICAL /\ Has(trace, DIAGONAL)
        THEN [found |-> TRUE, i |-> ni - 1, j |-> nj - 1,
              M |-> [M EXCEPT ![ni - 1][nj - 1].path = DIAGONAL]]
        ELSE IF M[ni][nj].path = 0
        THEN [found |-> FALSE, i |-> ni, j |-> nj, M |-> M]
        ELSE smithwaterman_prune(M, ni, nj, M[ni][nj].path)

\* a faulty search that stops at the next cell with a DIAGONAL trace,
\* ENDPOINT or not (sensitivity test of C8)
RECURSIVE smithwaterman_endpoint_any_diagonal(_, _, _, _, _)
smithwaterman_endpoint_any_diagonal(M, nA, nB, i, j) ==
    LET ni == IF j < nB THEN i ELSE i + 1
        nj == IF j < nB THEN j + 1 ELSE 0
    IN  IF j >= nB /\ i >= nA THEN [found |-> FALSE, i |-> i, j |-> j]
        ELSE IF Has(M[ni][nj].trace, DIAGONAL)
        THEN [found |-> TRUE, i |-> ni, j |-> nj]
        ELSE smithwaterman_endpoint_any_diagonal(M, nA, nB, ni, nj)

\* a variant of the search that goes down the columns, not along the rows
RECURSIVE smithwaterman_endpoint_by_columns(_, _, _, _, _)
smithwaterman_endpoint_by_columns(M, nA, nB, i, j) ==
    LET ni == IF i < nA THEN i + 1 ELSE 0
        nj == IF i < nA THEN j ELSE j + 1
    IN  IF j >= nB /\ i >= nA THEN [found |-> FALSE, i |-> i, j |-> j]
        ELSE IF Has(M[ni][nj].trace, ENDPOINT)
        THEN [found |-> TRUE, i |-> ni, j |-> nj]
        ELSE smithwaterman_endpoint_by_columns(M, nA, nB, ni, nj)

\* the search for the next ENDPOINT in row-major order after (i, j)
RECURSIVE smithwaterman_endpoint(_, _, _, _, _)
smithwaterman_endpoint(M, nA, nB, i, j) ==
    LET ni == IF j < nB THEN i ELSE i + 1
        nj == IF j < nB THEN j + 1 ELSE 0
    IN  IF j >= nB /\ i >= nA THEN [found |-> FALSE, i |-> i, j |-> j]
        ELSE IF Has(M[ni][nj].trace, ENDPOINT)
        THEN [found |-> TRUE, i |-> ni, j |-> nj]
        ELSE smithwaterman_endpoint(M, nA, nB, ni, nj)

\* follow the traceback from (i, j), whose trace is given, to a STARTPOINT
RECURSIVE smithwaterman_traceback(_, _, _, _)
smithwaterman_traceback(M, i, j, trace) ==
    IF Has(trace, HORIZONTAL)
    THEN smithwaterman_traceback([M EXCEPT ![i][j - 1].path = HORIZONTAL],
                                 i, j - 1, M[i][j - 1].trace)
    ELSE IF Has(trace, VERTICAL)
    THEN smithwaterman_traceback([M EXCEPT ![i - 1][j].path = VERTICAL],
                                 i - 1, j, M[i - 1][j].trace)
    ELSE IF Has(trace, DIAGONAL)
    THEN smithwaterman_traceback([M EXCEPT ![i - 1][j - 1].path = DIAGONAL],
                                 i - 1, j - 1, M[i - 1][j - 1].trace)
    ELSE [M |-> M, i |-> i, j |-> j, ok |-> Has(trace, STARTPOINT)]

PathGenerator_next_smithwaterman(self) ==
    LET M == self.M
        Return(tb) ==
            IF ~tb.ok
            THEN [paths |-> [self EXCEPT !.M = tb.M],
                  result |-> NULL, error |-> "RuntimeError"]
            ELSE [paths |-> [self EXCEPT !.M = tb.M, !.iA = tb.i, !.iB = tb.j],
                  result |-> create_path(tb.M, tb.i, tb.j), error |-> ""]
        Endpoint(ep) ==
            IF ~ep.found
            THEN [paths |-> [self EXCEPT !.M[0][0].path = DONE],
                  result |-> NULL, error |-> ""]
            ELSE Return(smithwaterman_traceback(
                            [M EXCEPT ![ep.i][ep.j].path = 0], ep.i, ep.j,
                            BitAnd(M[ep.i][ep.j].trace, DIAGONAL)))
        Pruned(pr) ==
            IF pr.found
            THEN Return(smithwaterman_traceback(pr.M, pr.i, pr.j,
                                                pr.M[pr.i][pr.j].trace))
            ELSE Endpoint(smithwaterman_endpoint(M, self.nA, self.nB,
                                                 pr.i, pr.j))
        Start(path) ==
            IF path # 0
            THEN Pruned(smithwaterman_prune(M, self.iA, self.iB, path))
            ELSE Endpoint(smithwaterman_endpoint(M, self.nA, self.nB,
                                                 self.iA, self.iB))
    IN  IF M[0][0].path = DONE \/ M[0][0].path = NONE
        THEN [paths |-> self, result |-> NULL, error |-> ""]
        ELSE Start(M[self.iA][self.iB].path)

(* -------------------- PathGenerator: SW length ------------------------- *)
RECURSIVE smithwaterman_length_loop(_, _, _, _)
smithwaterman_length_loop(self, st, i, j) ==
    LET nB == self.nB
        trace == self.M[i][j].trace
        temp == IF j = 1 THEN st.counts[0] ELSE st.temp
        c1 == IF Has(trace, DIAGONAL) THEN SAFE_ADD(temp, 0) ELSE 0
        total == IF Has(trace, ENDPOINT) THEN SAFE_ADD(c1, st.total)
                 ELSE st.total
        c2 == IF Has(trace, HORIZONTAL) THEN SAFE_ADD(st.counts[j - 1], c1)
              ELSE c1
        c3 == IF Has(trace, VERTICAL) THEN SAFE_ADD(st.counts[j], c2) ELSE c2
        count == IF c3 = 0 /\ Has(trace, STARTPOINT) THEN 1 ELSE c3
    IN  IF i > self.nA THEN st.total
        ELSE smithwaterman_length_loop(self,
                 [counts |-> [st.counts EXCEPT ![j] = count],
                  temp |-> st.counts[j], total |-> total],
                 NextI(i, j, nB), NextJ(i, j, nB))

PathGenerator_smithwaterman_length(self) ==
    smithwaterman_length_loop(self,
        [counts |-> [j \in 0..self.nB |-> 1], temp |-> 1, total |-> 0], 1, 1)

(* ------------------------ Gotoh: allocation ---------------------------- *)
\* PathGenerator_create_Gotoh: border traces of M and of the two gap
\* matrices; in Local mode gaps[nA][0] is left as allocated (junk)
PathGenerator_create_Gotoh(nA, nB, mode, junk) ==
    [algorithm |-> "Gotoh", mode |-> mode,
     nA |-> nA, nB |-> nB, iA |-> 0, iB |-> 0, length |-> 0,
     M |-> [i \in 0..nA |-> [j \in 0..nB |->
              [trace |-> IF mode = "Local" /\ (i = 0 \/ j = 0)
                         THEN STARTPOINT ELSE 0,
               path |-> IF i = 0 /\ j = 0 THEN 0 ELSE junk]]],
     gaps |-> [i \in 0..nA |-> [j \in 0..nB |->
              IF mode = "Global"
              THEN [Ix |-> IF j = 0 /\ i = 1 THEN M_MATRIX
                           ELSE IF j = 0 /\ i > 1 THEN Ix_MATRIX ELSE 0,
                    Iy |-> IF i = 0 /\ j = 1 THEN M_MATRIX
                           ELSE IF i = 0 /\ j > 1 THEN Iy_MATRIX ELSE 0]
              ELSE IF i = nA /\ j = 0 /\ nA > 0
                   THEN [Ix |-> junk, Iy |-> junk]
                   ELSE [Ix |-> 0, Iy |-> 0]]]]

(* ----------------------- Gotoh global, score only ---------------------- *)
\* the score rows before the first row of cells, common to score and align
gotoh_global_row0(self, nB, M, gaps) ==
    [M_scores |-> [j \in 0..nB |-> IF j = 0 THEN 0 ELSE -DBL_MAX],
     Ix_scores |-> [j \in 0..nB |-> -DBL_MAX],
     Iy_scores |-> [j \in 0..nB |->
        IF j = 0 THEN -DBL_MAX
        ELSE self.target_left_open_gap_score
             + self.target_left_extend_gap_score * (j - 1)],
     M_temp |-> 0, Ix_temp |-> 0, Iy_temp |-> 0, M |-> M, gaps |-> gaps]

\* the start of row i: the temporaries take column 0 of the previous row,
\* column 0 takes the left border of row i
gotoh_global_row_start(self, st, i) ==
    [st EXCEPT !.M_temp = st.M_scores[0], !.Ix_temp = st.Ix_scores[0],
               !.Iy_temp = st.Iy_scores[0],
               !.M_scores[0] = -DBL_MAX,
               !.Ix_scores[0] = self.query_left_open_gap_score
                                + self.query_left_extend_gap_score * (i - 1),
               !.Iy_scores[0] = -DBL_MAX]

\* the cells 1..nA x 1..nB in row-major order, on one row of each matrix
RECURSIVE gotoh_global_score_loop(_, _, _, _, _, _)
gotoh_global_score_loop(self, sA, sB, st, i, j) ==
    LET nA == Len(sA)
        nB == Len(sB)
        sub == self.substitution_matrix[CHARINDEX(sA[i])][CHARINDEX(sB[j])]
        open_B == IF j < nB THEN self.query_open_gap_score
                  ELSE self.query_right_open_gap_score
        extend_B == IF j < nB THEN self.query_extend_gap_score
                    ELSE self.query_right_extend_gap_score
        open_A == IF i < nA THEN self.target_open_gap_score
                  ELSE self.target_right_open_gap_score
        extend_A == IF i < nA THEN self.target_extend_gap_score
                    ELSE self.target_right_extend_gap_score
        StepIy(s) ==
            [s EXCEPT !.Iy_temp = s.Iy_scores[j],
                      !.Iy_scores[j] =
                          Max3(FAdd(s.M_scores[j - 1], open_A),
                               FAdd(s.Ix_scores[j - 1], open_A),
                               FAdd(s.Iy_scores[j - 1], extend_A))]
        StepIx(s) ==
            StepIy([s EXCEPT !.Ix_temp = s.Ix_scores[j],
                             !.Ix_scores[j] =
                                 Max3(FAdd(s.M_temp, open_B),
                                      FAdd(s.Ix_scores[j], extend_B),
                                      FAdd(s.Iy_scores[j], open_B))])
        StepM(s) ==
            StepIx([s EXCEPT !.M_temp = s.M_scores[j],
                             !.M_scores[j] =
                                 FAdd(Max3(s.M_temp, s.Ix_temp, s.Iy_temp),
                                      sub)])
    IN  IF i > nA
        THEN Max3(st.M_scores[nB], st.Ix_scores[nB], st.Iy_scores[nB])
        ELSE gotoh_global_score_loop(self, sA, sB,
                 StepM(IF j = 1 THEN gotoh_global_row_start(self, st, i)
                       ELSE st),
                 NextI(i, j, nB), NextJ(i, j, nB))

Aligner_gotoh_global_score(self, sA, sB) ==
    gotoh_global_score_loop(self, sA, sB,
        gotoh_global_row0(self, Len(sB), << >>, << >>), 1, 1)

\* SELECT_TRACE_GOTOH_GLOBAL_*: a variant that records every state
SELECT_TRACE_GOTOH_every_state(score1, score2, score3, epsilon) ==
    [score |-> Max3(score1, score2, score3),
     trace |-> BitOr(BitOr(M_MATRIX, Ix_MATRIX), Iy_MATRIX)]

(* ----------------------- Gotoh global, traceback ----------------------- *)
\* SELECT_TRACE_GOTOH_GLOBAL_GAP / _ALIGN: M, then Ix, then Iy
SELECT_TRACE_GOTOH(score1, score2, score3, epsilon) ==
    SelectStep(SelectStep([score |-> score1, trace |-> M_MATRIX],
                          score2, Ix_MATRIX, epsilon),
               score3, Iy_MATRIX, epsilon)

RECURSIVE gotoh_global_align_loop(_, _, _, _, _, _)
gotoh_global_align_loop(self, sA, sB, st, i, j) ==
    LET nA == Len(sA)
        nB == Len(sB)
        epsilon == self.epsilon
        sub == self.substitution_matrix[CHARINDEX(sA[i])][CHARINDEX(sB[j])]
        open_B == IF j < nB THEN self.query_open_gap_score
                  ELSE self.query_right_open_gap_score
        extend_B == IF j < nB THEN self.query_extend_gap_score
                    ELSE self.query_right_extend_gap_score
        open_A == IF i < nA THEN self.target_open_gap_score
                  ELSE self.target_right_open_gap_score
        extend_A == IF i < nA THEN self.target_extend_gap_score
                    ELSE self.target_right_extend_gap_score
        StoreIy(s, sel) ==
            [s EXCEPT !.Iy_temp = s.Iy_scores[j],
                      !.Iy_scores[j] = sel.score,
                      !.gaps[i][j].Iy = sel.trace]
        StepIy(s) ==
            StoreIy(s, SELECT_TRACE_GOTOH(
                           FAdd(s.M_scores[j - 1], open_A),
                           FAdd(s.Ix_scores[j - 1], open_A),
                           FAdd(s.Iy_scores[j - 1], extend_A), epsilon))
        StoreIx(s, sel) ==
            StepIy([s EXCEPT !.Ix_temp = s.Ix_scores[j],
                             !.Ix_scores[j] = sel.score,
                             !.gaps[i][j].Ix = sel.trace])
        StepIx(s) ==
            StoreIx(s, SELECT_TRACE_GOTOH(
                           FAdd(s.M_temp, open_B),
                           FAdd(s.Ix_scores[j], extend_B),
                           FAdd(s.Iy_scores[j], open_B), epsilon))
        StoreM(s, sel) ==
            StepIx([s EXCEPT !.M_temp = s.M_scores[j],
                             !.M_scores[j] = FAdd(sel.score, sub),
                             !.M[i][j].trace = sel.trace])
        StepM(s) ==
            StoreM(s, SELECT_TRACE_GOTOH(s.M_temp, s.Ix_temp, s.Iy_temp,
                                         epsilon))
    IN  IF i > nA THEN st
        ELSE gotoh_global_align_loop(self, sA, sB,
                 StepM(IF j = 1 THEN gotoh_global_row_start(self, st, i)
                       ELSE st),
                 NextI(i, j, nB), NextJ(i, j, nB))

Aligner_gotoh_global_align(self, sA, sB, junk) ==
    LET nA == Len(sA)
        nB == Len(sB)
        \* traces of final states that are below the score are removed
        Trim(paths, st, low) ==
            [paths EXCEPT
               !.M = [st.M EXCEPT ![nA][nB] =
                        [trace |-> IF st.M_scores[nB] < low THEN 0
                                   ELSE st.M[nA][nB].trace,
                         path |-> 0]],
               !.gaps = [st.gaps EXCEPT ![nA][nB] =
                        [Ix |-> IF st.Ix_scores[nB] < low THEN 0
                                ELSE st.gaps[nA][nB].Ix,
                         Iy |-> IF st.Iy_scores[nB] < low THEN 0
                                ELSE st.gaps[nA][nB].Iy]]]
        Finish(paths, st, score) ==
            [score |-> score,
             paths |-> Trim(paths, st, FAdd(score, -self.epsilon))]
        Select(paths, st) ==
            Finish(paths, st,
                   Max3(st.M_scores[nB], st.Ix_scores[nB], st.Iy_scores[nB]))
        Fill(paths) ==
            Select(paths, gotoh_global_align_loop(self, sA, sB,
                       gotoh_global_row0(self, nB, paths.M, paths.gaps),
                       1, 1))
    IN  Fill(PathGenerator_create_Gotoh(nA, nB, "Global", junk))

(* ------------------ PathGenerator: Gotoh global next ------------------- *)
\* the state a path is in after a step in direction path
StateOfPath(path, m) ==
    IF path = HORIZONTAL THEN Iy_MATRIX
    ELSE IF path = VERTICAL THEN Ix_MATRIX
    ELSE IF path = DIAGONAL THEN M_MATRIX
    ELSE m

\* the trace of state m at cell (i, j)
StateTrace(self, i, j, m) ==
    IF m = M_MATRIX THEN self.M[i][j].trace
    ELSE IF m = Ix_MATRIX THEN self.gaps[i][j].Ix
    ELSE self.gaps[i][j].Iy

\* the pruning loop: (i, j) is a cell of the stored path reached in state
\* m; look at the cell the path goes to next for a predecessor state
\* after m in the order M, Ix, Iy
RECURSIVE gotoh_global_prune(_, _, _, _, _)
gotoh_global_prune(self, i, j, m, trace0) ==
    LET path == self.M[i][j].path
        ni == IF path = VERTICAL \/ path = DIAGONAL THEN i + 1 ELSE i
        nj == IF path = HORIZONTAL \/ path = DIAGONAL THEN j + 1 ELSE j
        trace == IF path = HORIZONTAL THEN self.gaps[ni][nj].Iy
                 ELSE IF path = VERTICAL THEN self.gaps[ni][nj].Ix
                 ELSE IF path = DIAGONAL THEN self.M[ni][nj].trace
                 ELSE trace0
    IN  IF path = 0
        THEN [path |-> 0, i |-> i, j |-> j,
              m |-> IF m = M_MATRIX THEN Ix_MATRIX
                    ELSE IF m = Ix_MATRIX THEN Iy_MATRIX
                    ELSE IF m = Iy_MATRIX THEN 0 ELSE m]
        ELSE IF m = M_MATRIX /\ Has(trace, Ix_MATRIX)
        THEN [path |-> path, i |-> i, j |-> j, m |-> Ix_MATRIX]
        ELSE IF (m = M_MATRIX \/ m = Ix_MATRIX) /\ Has(trace, Iy_MATRIX)
        THEN [path |-> path, i |-> i, j |-> j, m |-> Iy_MATRIX]
        ELSE gotoh_global_prune(self, ni, nj, StateOfPath(path, m), trace)

\* the traceback loop: trace names the states the walk may come from at
\* (i, j), path is the step that leaves (i, j)
RECURSIVE gotoh_traceback(_, _, _, _, _)
gotoh_traceback(self, i, j, trace, path) ==
    LET M1 == [self.M EXCEPT ![i][j].path = path]
    IN  IF Has(trace, M_MATRIX)
        THEN gotoh_traceback([self EXCEPT !.M = M1], i - 1, j - 1,
                             self.M[i][j].trace, DIAGONAL)
        ELSE IF Has(trace, Ix_MATRIX)
        THEN gotoh_traceback([self EXCEPT !.M = M1], i - 1, j,
                             self.gaps[i][j].Ix, VERTICAL)
        ELSE IF Has(trace, Iy_MATRIX)
        THEN gotoh_traceback([self EXCEPT !.M = M1], i, j - 1,
                             self.gaps[i][j].Iy, HORIZONTAL)
        ELSE self

\* the switch that enters the traceback at (i, j) in state m
gotoh_enter(self, i, j, m) ==
    IF m = M_MATRIX
    THEN gotoh_traceback(self, i - 1, j - 1, self.M[i][j].trace, DIAGONAL)
    ELSE IF m = Ix_MATRIX
    THEN gotoh_traceback(self, i - 1, j, self.gaps[i][j].Ix, VERTICAL)
    ELSE gotoh_traceback(self, i, j - 1, self.gaps[i][j].Iy, HORIZONTAL)

PathGenerator_next_gotoh_global(self) ==
    LET nA == self.nA
        nB == self.nB
        \* the final state a new path starts from, given the last one
        End(m) ==
            IF m = M_MATRIX /\ self.M[nA][nB].trace # 0 THEN M_MATRIX
            ELSE IF (m = M_MATRIX \/ m = Ix_MATRIX)
                    /\ self.gaps[nA][nB].Ix # 0
            THEN Ix_MATRIX
            ELSE IF (m = M_MATRIX \/ m = Ix_MATRIX \/ m = Iy_MATRIX)
                    /\ self.gaps[nA][nB].Iy # 0
            THEN Iy_MATRIX
            ELSE 0
        Return(done) ==
            [paths |-> done, result |-> create_path(done.M, 0, 0),
             error |-> ""]
        Enter(i, j, m) ==
            IF m = 0
            THEN [paths |-> [self EXCEPT !.M[0][0].path = DONE],
                  result |-> NULL, error |-> ""]
            ELSE Return(gotoh_enter(self, i, j, m))
        Pruned(pr) ==
            Enter(pr.i, pr.j, IF pr.path = 0 THEN End(pr.m) ELSE pr.m)
        Start(path) ==
            IF path = DONE
            THEN [paths |-> self, result |-> NULL, error |-> ""]
            ELSE IF path = 0
            THEN Enter(nA, nB, End(M_MATRIX))
            ELSE Pruned(gotoh_global_prune(self, 0, 0, M_MATRIX, 0))
    IN  Start(self.M[0][0].path)

(* ----------------- PathGenerator: Gotoh global length ------------------ *)
\* the three SAFE_ADDs of one state: terms chosen by the bits of trace
Add3(trace, tM, tIx, tIy) ==
    LET AddIy(count) ==
            IF Has(trace, Iy_MATRIX) THEN SAFE_ADD(tIy, count) ELSE count
        AddIx(count) ==
            AddIy(IF Has(trace, Ix_MATRIX) THEN SAFE_ADD(tIx, count)
                  ELSE count)
    IN  AddIx(IF Has(trace, M_MATRIX) THEN SAFE_ADD(tM, 0) ELSE 0)

RECURSIVE gotoh_global_length_loop(_, _, _, _)
gotoh_global_length_loop(self, st, i, j) ==
    LET nA == self.nA
        nB == self.nB
        RowStart(s) ==
            [s EXCEPT !.M_temp = s.M_counts[0], !.Ix_temp = s.Ix_counts[0],
                      !.Iy_temp = s.Iy_counts[0],
                      !.M_counts[0] = 0, !.Ix_counts[0] = 1,
                      !.Iy_counts[0] = 0]
        StepIy(s) ==
            [s EXCEPT !.Iy_temp = s.Iy_counts[j],
                      !.Iy_counts[j] =
                          Add3(self.gaps[i][j].Iy, s.M_counts[j - 1],
                               s.Ix_counts[j - 1], s.Iy_counts[j - 1])]
        StepIx(s) ==
            StepIy([s EXCEPT !.Ix_temp = s.Ix_counts[j],
                             !.Ix_counts[j] =
                                 Add3(self.gaps[i][j].Ix, s.M_temp,
                                      s.Ix_counts[j], s.Iy_counts[j])])
        StepM(s) ==
            StepIx([s EXCEPT !.M_temp = s.M_counts[j],
                             !.M_counts[j] =
                                 Add3(self.M[i][j].trace, s.M_temp,
                                      s.Ix_temp, s.Iy_temp)])
        \* the sum over the final states that have a trace
        SumIy(count) ==
            IF self.gaps[nA][nB].Iy # 0
            THEN SAFE_ADD(st.Iy_counts[nB], count) ELSE count
        SumIx(count) ==
            SumIy(IF self.gaps[nA][nB].Ix # 0
                  THEN SAFE_ADD(st.Ix_counts[nB], count) ELSE count)
    IN  IF i > nA
        THEN SumIx(IF self.M[nA][nB].trace # 0
                   THEN SAFE_ADD(st.M_counts[nB], 0) ELSE 0)
        ELSE gotoh_global_length_loop(self,
                 StepM(IF j = 1 THEN RowStart(st) ELSE st),
                 NextI(i, j, nB), NextJ(i, j, nB))

PathGenerator_gotoh_global_length(self) ==
    gotoh_global_length_loop(self,
        [M_counts |-> [j \in 0..self.nB |-> IF j = 0 THEN 1 ELSE 0],
         Ix_counts |-> [j \in 0..self.nB |-> 0],
         Iy_counts |-> [j \in 0..self.nB |-> IF j = 0 THEN 0 ELSE 1],
         M_temp |-> 0, Ix_temp |-> 0, Iy_temp |-> 0], 1, 1)

(* ----------------------- Gotoh local, score only ----------------------- *)
RECURSIVE gotoh_local_score_loop(_, _, _, _, _, _)
gotoh_local_score_loop(self, sA, sB, st, i, j) ==
    LET nA == Len(sA)
        nB == Len(sB)
        sub == self.substitution_matrix[CHARINDEX(sA[i])][CHARINDEX(sB[j])]
        inner == i < nA /\ j < nB
        RowStart(s) ==
            [s EXCEPT !.M_temp = s.M_scores[0], !.Ix_temp = s.Ix_scores[0],
                      !.Iy_temp = s.Iy_scores[0],
                      !.M_scores[0] = -DBL_MAX, !.Ix_scores[0] = 0,
                      !.Iy_scores[0] = -DBL_MAX]
        StoreIy(s, score) ==
            [s EXCEPT !.Iy_temp = s.Iy_scores[j], !.Iy_scores[j] = score,
                      !.maximum = Larger(s.maximum, score)]
        \* SELECT_SCORE_LOCAL3, only away from the last row and column
        StepIy(s) ==
            StoreIy(s, IF inner
                       THEN LocalClamp(Max3(
                                FAdd(s.M_scores[j - 1],
                                     self.target_open_gap_score),
                                FAdd(s.Ix_scores[j - 1],
                                     self.target_open_gap_score),
                                FAdd(s.Iy_scores[j - 1],
                                     self.target_extend_gap_score)))
                       ELSE 0)
        StoreIx(s, score) ==
            StepIy([s EXCEPT !.Ix_temp = s.Ix_scores[j],
                             !.Ix_scores[j] = score,
                             !.maximum = Larger(s.maximum, score)])
        StepIx(s) ==
            StoreIx(s, IF inner
                       THEN LocalClamp(Max3(
                                FAdd(s.M_temp, self.query_open_gap_score),
                                FAdd(s.Ix_scores[j],
                                     self.query_extend_gap_score),
                                FAdd(s.Iy_scores[j],
                                     self.query_open_gap_score)))
                       ELSE 0)
        StoreM(s, score) ==
            StepIx([s EXCEPT !.M_temp = s.M_scores[j],
                             !.M_scores[j] = score,
                             !.maximum = Larger(s.maximum, score)])
        \* SELECT_SCORE_GOTOH_LOCAL_ALIGN
        StepM(s) ==
            StoreM(s, LocalClamp(FAdd(Max3(s.M_temp, s.Ix_temp, s.Iy_temp),
                                      sub)))
    IN  IF i > nA THEN st.maximum
        ELSE gotoh_local_score_loop(self, sA, sB,
                 StepM(IF j = 1 THEN RowStart(st) ELSE st),
                 NextI(i, j, nB), NextJ(i, j, nB))

Aligner_gotoh_local_score(self, sA, sB) ==
    gotoh_local_score_loop(self, sA, sB,
        [M_scores |-> [j \in 0..Len(sB) |-> IF j = 0 THEN 0 ELSE -DBL_MAX],
         Ix_scores |-> [j \in 0..Len(sB) |-> -DBL_MAX],
         Iy_scores |-> [j \in 0..Len(sB) |-> IF j = 0 THEN -DBL_MAX ELSE 0],
         M_temp |-> 0, Ix_temp |-> 0, Iy_temp |-> 0, maximum |-> 0], 1, 1)

(* ----------------------- Gotoh local, traceback ------------------------ *)
\* SELECT_TRACE_GOTOH_LOCAL_GAP: a gap state below epsilon is switched off
SELECT_TRACE_GOTOH_LOCAL_GAP(score1, score2, score3, epsilon) ==
    LET Floor(sel) ==
            IF sel.score < epsilon THEN [score |-> -DBL_MAX, trace |-> 0]
            ELSE sel
    IN  Floor(SELECT_TRACE_GOTOH(score1, score2, score3, epsilon))

\* SELECT_TRACE_GOTOH_LOCAL_ALIGN: sel is the choice among the three
\* predecessor states, st carries the score rows, the tables, the maximum
\* and the cell (im, jm) from which ENDPOINTs are valid
SELECT_TRACE_GOTOH_LOCAL_ALIGN(st, sel, sub, epsilon, i, j) ==
    LET Store(raw) ==
            LET low == raw < epsilon
                isEnd == ~low /\ raw > st.maximum - epsilon
                isNew == isEnd /\ raw > st.maximum + epsilon
            IN  [st EXCEPT
                   !.M_temp = st.M_scores[j],
                   !.M_scores[j] = IF low THEN 0 ELSE raw,
                   !.M = [(IF isNew
                           THEN ClearEndpoints(st.M, st.im, st.jm, i, j)
                           ELSE st.M) EXCEPT ![i][j].trace =
                              IF low THEN STARTPOINT
                              ELSE IF isEnd THEN BitOr(sel.trace, ENDPOINT)
                              ELSE sel.trace],
                   !.maximum = IF isNew THEN raw ELSE st.maximum,
                   !.im = IF isNew THEN i ELSE st.im,
                   !.jm = IF isNew THEN j ELSE st.jm]
    IN  Store(FAdd(sel.score, sub))

RECURSIVE gotoh_local_align_loop(_, _, _, _, _, _)
gotoh_local_align_loop(self, sA, sB, st, i, j) ==
    LET nA == Len(sA)
        nB == Len(sB)
        epsilon == self.epsilon
        sub == self.substitution_matrix[CHARINDEX(sA[i])][CHARINDEX(sB[j])]
        inner == i < nA /\ j < nB
        \* the last row opens with M[nA][0].trace = 0 and gaps[nA][0] = 0
        LastRow(s) ==
            IF i = nA
            THEN [s EXCEPT !.M[nA][0].trace = 0,
                           !.gaps[nA][0] = [Ix |-> 0, Iy |-> 0]]
            ELSE s
        RowStart(s) ==
            LastRow([s EXCEPT !.M_temp = s.M_scores[0],
                              !.Ix_temp = s.Ix_scores[0],
                              !.Iy_temp = s.Iy_scores[0],
                              !.M_scores[0] = 0, !.Ix_scores[0] = -DBL_MAX,
                              !.Iy_scores[0] = -DBL_MAX])
        StoreIy(s, sel) ==
            [s EXCEPT !.Iy_temp = s.Iy_scores[j],
                      !.Iy_scores[j] = sel.score,
                      !.gaps[i][j].Iy = sel.trace]
        StepIy(s) ==
            StoreIy(s, IF inner
                       THEN SELECT_TRACE_GOTOH_LOCAL_GAP(
                                FAdd(s.M_scores[j - 1],
                                     self.target_open_gap_score),
                                FAdd(s.Ix_scores[j - 1],
                                     self.target_open_gap_score),
                                FAdd(s.Iy_scores[j - 1],
                                     self.target_extend_gap_score), epsilon)
                       ELSE [score |-> 0, trace |-> 0])
        StoreIx(s, sel) ==
            StepIy([s EXCEPT !.Ix_temp = s.Ix_scores[j],
                             !.Ix_scores[j] = sel.score,
                             !.gaps[i][j].Ix = sel.trace])
        StepIx(s) ==
            StoreIx(s, IF inner
                       THEN SELECT_TRACE_GOTOH_LOCAL_GAP(
                                FAdd(s.M_temp, self.query_open_gap_score),
                                FAdd(s.Ix_scores[j],
                                     self.query_extend_gap_score),
                                FAdd(s.Iy_scores[j],
                                     self.query_open_gap_score), epsilon)
                       ELSE [score |-> 0, trace |-> 0])
        StepM(s) ==
            StepIx(SELECT_TRACE_GOTOH_LOCAL_ALIGN(s,
                       SELECT_TRACE_GOTOH(s.M_temp, s.Ix_temp, s.Iy_temp,
                                          epsilon), sub, epsilon, i, j))
    IN  IF i > nA THEN st
        ELSE gotoh_local_align_loop(self, sA, sB,
                 StepM(IF j = 1 THEN RowStart(st) ELSE st),
                 NextI(i, j, nB), NextJ(i, j, nB))

\* trace & ~(bits of M, Ix, Iy that are absent from the path mask p)
KeepReachable(trace, p) ==
    LET KeepIy(t) == IF Has(p, Iy_MATRIX) THEN t ELSE BitClear(t, Iy_MATRIX)
        KeepIx(t) ==
            KeepIy(IF Has(p, Ix_MATRIX) THEN t ELSE BitClear(t, Ix_MATRIX))
    IN  KeepIx(IF Has(p, M_MATRIX) THEN trace ELSE BitClear(trace, M_MATRIX))
AnyState(trace) ==
    Has(trace, M_MATRIX) \/ Has(trace, Ix_MATRIX) \/ Has(trace, Iy_MATRIX)

\* the reachability sweep: path holds, per cell, the set of states that are
\* reachable from a STARTPOINT and may be extended
RECURSIVE gotoh_local_sweep(_, _, _)
gotoh_local_sweep(self, i, j) ==
    LET M == self.M
        gaps == self.gaps
        Cell(tM, tIx, tIy) ==
            LET okM == Has(tM, STARTPOINT) \/ AnyState(tM)
                SetIy(p) == IF AnyState(tIy) THEN BitOr(p, Iy_MATRIX)
                            ELSE BitClear(p, Iy_MATRIX)
                SetIx(p) == SetIy(IF AnyState(tIx) THEN BitOr(p, Ix_MATRIX)
                                  ELSE BitClear(p, Ix_MATRIX))
            IN  [self EXCEPT
                   !.M[i][j] =
                      [trace |-> IF okM THEN tM ELSE 0,
                       path |-> SetIx(IF okM
                                      THEN (IF Has(tM, ENDPOINT) THEN 0
                                            ELSE BitOr(M[i][j].path,
                                                       M_MATRIX))
                                      ELSE BitClear(M[i][j].path,
                                                    M_MATRIX))],
                   !.gaps[i][j] =
                      [Ix |-> IF AnyState(tIx) THEN tIx ELSE 0,
                       Iy |-> IF AnyState(tIy) THEN tIy ELSE 0]]
    IN  IF i > self.nA THEN self
        ELSE gotoh_local_sweep(
                 Cell(KeepReachable(M[i][j].trace, M[i - 1][j - 1].path),
                      KeepReachable(gaps[i][j].Ix, M[i - 1][j].path),
                      KeepReachable(gaps[i][j].Iy, M[i][j - 1].path)),
                 NextI(i, j, self.nB), NextJ(i, j, self.nB))

Aligner_gotoh_local_align(self, sA, sB, junk) ==
    LET nA == Len(sA)
        nB == Len(sB)
        Finish(maximum, swept) ==
            [score |-> maximum,
             paths |-> [swept EXCEPT !.M[0][0].path =
                           IF maximum = 0 THEN DONE ELSE 0]]
        Sweep(paths, st) ==
            Finish(st.maximum,
                   gotoh_local_sweep(
                       [paths EXCEPT
                          !.M = [i \in 0..nA |-> [j \in 0..nB |->
                                   IF i = 0 \/ j = 0
                                   THEN [st.M[i][j] EXCEPT !.path = M_MATRIX]
                                   ELSE st.M[i][j]]],
                          !.gaps = st.gaps], 1, 1))
        Fill(paths) ==
            Sweep(paths, gotoh_local_align_loop(self, sA, sB,
                [M_scores |-> [j \in 0..nB |-> 0],
                 Ix_scores |-> [j \in 0..nB |-> -DBL_MAX],
                 Iy_scores |-> [j \in 0..nB |-> -DBL_MAX],
                 M_temp |-> 0, Ix_temp |-> 0, Iy_temp |-> 0,
                 M |-> paths.M, gaps |-> paths.gaps,
                 maximum |-> 0, im |-> nA, jm |-> nB], 1, 1))
    IN  Fill(PathGenerator_create_Gotoh(nA, nB, "Local", junk))

(* ------------------ PathGenerator: Gotoh local next -------------------- *)
\* the pruning loop: as in global mode, but the end of the stored path
\* hands over to the search for the next end point
RECURSIVE gotoh_local_prune(_, _, _, _, _)
gotoh_local_prune(self, i, j, m, trace0) ==
    LET path == self.M[i][j].path
        ni == IF path = VERTICAL \/ path = DIAGONAL THEN i + 1 ELSE i
        nj == IF path = HORIZONTAL \/ path = DIAGONAL THEN j + 1 ELSE j
        trace == IF path = HORIZONTAL THEN self.gaps[ni][nj].Iy
                 ELSE IF path = VERTICAL THEN self.gaps[ni][nj].Ix
                 ELSE IF path = DIAGONAL THEN self.M[ni][nj].trace
                 ELSE trace0
    IN  IF path = 0
        THEN [path |-> 0, i |-> i, j |-> j, m |-> M_MATRIX]
        ELSE IF m = M_MATRIX /\ Has(trace, Ix_MATRIX)
        THEN [path |-> path, i |-> i, j |-> j, m |-> Ix_MATRIX]
        ELSE IF (m = M_MATRIX \/ m = Ix_MATRIX) /\ Has(trace, Iy_MATRIX)
        THEN [path |-> path, i |-> i, j |-> j, m |-> Iy_MATRIX]
        ELSE gotoh_local_prune(self, ni, nj, StateOfPath(path, m), trace)

\* the traceback loop of local mode: stop at a state whose trace is
\* exactly STARTPOINT; a state without predecessor is an error
RECURSIVE gotoh_local_traceback(_, _, _, _)
gotoh_local_traceback(self, i, j, m) ==
    LET trace == StateTrace(self, i, j, m)
        path == IF m = M_MATRIX THEN DIAGONAL
                ELSE IF m = Ix_MATRIX THEN VERTICAL ELSE HORIZONTAL
        pi == IF m = Iy_MATRIX THEN i ELSE i - 1
        pj == IF m = Ix_MATRIX THEN j ELSE j - 1
        pm == IF Has(trace, M_MATRIX) THEN M_MATRIX
              ELSE IF Has(trace, Ix_MATRIX) THEN Ix_MATRIX
              ELSE IF Has(trace, Iy_MATRIX) THEN Iy_MATRIX ELSE 0
    IN  IF trace = STARTPOINT
        THEN [paths |-> self, i |-> i, j |-> j, ok |-> TRUE]
        ELSE IF pm = 0
        THEN [paths |-> self, i |-> i, j |-> j, ok |-> FALSE]
        ELSE gotoh_local_traceback([self EXCEPT !.M[pi][pj].path = path],
                                   pi, pj, pm)

PathGenerator_next_gotoh_local(self) ==
    LET Return(tb) ==
            IF ~tb.ok
            THEN [paths |-> tb.paths, result |-> NULL,
                  error |-> "RuntimeError"]
            ELSE [paths |-> [tb.paths EXCEPT !.iA = tb.i, !.iB = tb.j],
                  result |-> create_path(tb.paths.M, tb.i, tb.j),
                  error |-> ""]
        Endpoint(ep) ==
            IF ~ep.found
            THEN [paths |-> [self EXCEPT !.M[0][0].path = DONE],
                  result |-> NULL, error |-> ""]
            ELSE Return(gotoh_local_traceback(
                            [self EXCEPT !.M[ep.i][ep.j].path = 0],
                            ep.i, ep.j, M_MATRIX))
        Pruned(pr) ==
            IF pr.path # 0
            THEN Return(gotoh_local_traceback(self, pr.i, pr.j, pr.m))
            ELSE Endpoint(smithwaterman_endpoint(self.M, self.nA, self.nB,
                                                 pr.i, pr.j))
        Start(path) ==
            IF path # 0
            THEN Pruned(gotoh_local_prune(self, self.iA, self.iB,
                                          M_MATRIX, 0))
            ELSE Endpoint(smithwaterman_endpoint(self.M, self.nA, self.nB,
                                                 self.iA, self.iB))
    IN  IF self.M[0][0].path = DONE
        THEN [paths |-> self, result |-> NULL, error |-> ""]
        ELSE Start(self.M[self.iA][self.iB].path)

(* ----------------- PathGenerator: Gotoh local length ------------------- *)
RECURSIVE gotoh_local_length_loop(_, _, _, _)
gotoh_local_length_loop(self, st, i, j) ==
    LET nB == self.nB
        trace == self.M[i][j].trace
        RowStart(s) ==
            [s EXCEPT !.M_temp = s.M_counts[0], !.Ix_temp = s.Ix_counts[0],
                      !.Iy_temp = s.Iy_counts[0],
                      !.M_counts[0] = 1, !.Ix_counts[0] = 0,
                      !.Iy_counts[0] = 0]
        StepIy(s) ==
            [s EXCEPT !.Iy_temp = s.Iy_counts[j],
                      !.Iy_counts[j] =
                          Add3(self.gaps[i][j].Iy, s.M_counts[j - 1],
                               s.Ix_counts[j - 1], s.Iy_counts[j - 1])]
        StepIx(s) ==
            StepIy([s EXCEPT !.Ix_temp = s.Ix_counts[j],
                             !.Ix_counts[j] =
                                 Add3(self.gaps[i][j].Ix, s.M_temp,
                                      s.Ix_counts[j], s.Iy_counts[j])])
        StoreM(s, count) ==
            StepIx([s EXCEPT !.M_temp = s.M_counts[j],
                             !.M_counts[j] = count,
                             !.total = IF Has(trace, ENDPOINT)
                                       THEN SAFE_ADD(count, s.total)
                                       ELSE s.total])
        Started(s, count) ==
            StoreM(s, IF count = 0 /\ Has(trace, STARTPOINT) THEN 1
                      ELSE count)
        StepM(s) ==
            Started(s, Add3(trace, s.M_temp, s.Ix_temp, s.Iy_temp))
    IN  IF i > self.nA THEN st.total
        ELSE gotoh_local_length_loop(self,
                 StepM(IF j = 1 THEN RowStart(st) ELSE st),
                 NextI(i, j, nB), NextJ(i, j, nB))

PathGenerator_gotoh_local_length(self) ==
    gotoh_local_length_loop(self,
        [M_counts |-> [j \in 0..self.nB |-> 1],
         Ix_counts |-> [j \in 0..self.nB |-> 0],
         Iy_counts |-> [j \in 0..self.nB |-> 0],
         M_temp |-> 0, Ix_temp |-> 0, Iy_temp |-> 0, total |-> 0], 1, 1)

(* ------------------- Waterman-Smith-Beyer: gap costs ------------------- *)
\* the Python callables a caller may install as gap functions, by name;
\* each maps (position, length) to a score
GapFunctionNames == {"linear", "capped", "bypos"}
GapFunction(name, i, j) ==
    IF name = "linear" THEN -2 * j
    ELSE IF name = "capped" THEN (IF j = 1 THEN -2 ELSE -4)
    ELSE (IF i % 2 = 0 THEN -2 * j ELSE -4 * j)

\* _call_query_gap_function: a variant that never calls the gap function
call_query_gap_function_without_call(aligner, i, j) ==
    aligner.query_open_gap_score + (j - 1) * aligner.query_extend_gap_score

\* _call_query_gap_function(aligner, i, j, &score)
call_query_gap_function(aligner, i, j) ==
    IF aligner.query_gap_function = "NULL"
    THEN aligner.query_open_gap_score
         + (j - 1) * aligner.query_extend_gap_score
    ELSE GapFunction(aligner.query_gap_function, i, j)

\* _call_target_gap_function(aligner, i, j, &score)
call_target_gap_function(aligner, i, j) ==
    IF aligner.target_gap_function = "NULL"
    THEN aligner.target_open_gap_score
         + (j - 1) * aligner.target_extend_gap_score
    ELSE GapFunction(aligner.target_gap_function, i, j)

(* ---------------- Waterman-Smith-Beyer: allocation --------------------- *)
\* PathGenerator_create_WSB.  A gap list is the sequence of gap lengths
\* before the terminating 0; a NULL list is kept as the empty sequence
\* (every reader either tests the pointer and skips, or reads a list that
\* was allocated).  M[i][0].path is 0, the other path fields are junk.
PathGenerator_create_WSB(nA, nB, mode, junk) ==
    [algorithm |-> "WatermanSmithBeyer", mode |-> mode,
     nA |-> nA, nB |-> nB, iA |-> 0, iB |-> 0, length |-> 0,
     M |-> [i \in 0..nA |-> [j \in 0..nB |->
              [trace |-> IF mode = "Local" /\ (i = 0 \/ j = 0)
                         THEN STARTPOINT ELSE 0,
               path |-> IF j = 0 THEN 0 ELSE junk]]],
     gaps |-> [i \in 0..nA |-> [j \in 0..nB |->
              [MIx |-> IF mode = "Global" /\ j = 0 /\ i > 0
                       THEN << i >> ELSE << >>,
               IyIx |-> << >>,
               MIy |-> IF mode = "Global" /\ i = 0 /\ j > 0
                       THEN << j >> ELSE << >>,
               IxIy |-> << >>]]]]

(* ------------- Waterman-Smith-Beyer global, score only ----------------- *)
\* SELECT_SCORE_WATERMAN_SMITH_BEYER over gap = k..n for the vertical gap
\* ending at (i, j): best of M[i-k][j] and Iy[i-k][j] plus the gap score
RECURSIVE wsb_score_Ix(_, _, _, _, _, _, _)
wsb_score_Ix(self, Ms, Iys, i, j, k, score) ==
    LET gapscore == call_query_gap_function(self, j, k)
        s1 == Larger(score, FAdd(Ms[i - k][j], gapscore))
        s2 == Larger(s1, FAdd(Iys[i - k][j], gapscore))
    IN  IF k > i THEN score
        ELSE wsb_score_Ix(self, Ms, Iys, i, j, k + 1, s2)

RECURSIVE wsb_score_Iy(_, _, _, _, _, _, _)
wsb_score_Iy(self, Ms, Ixs, i, j, k, score) ==
    LET gapscore == call_target_gap_function(self, i, k)
        s1 == Larger(score, FAdd(Ms[i][j - k], gapscore))
        s2 == Larger(s1, FAdd(Ixs[i][j - k], gapscore))
    IN  IF k > j THEN score
        ELSE wsb_score_Iy(self, Ms, Ixs, i, j, k + 1, s2)

\* the three score matrices before the first cell: only the borders hold
wsb_global_border(self, nA, nB, M, gaps) ==
    [M_scores |-> [i \in 0..nA |-> [j \in 0..nB |->
                     IF i = 0 /\ j = 0 THEN 0 ELSE -DBL_MAX]],
     Ix_scores |-> [i \in 0..nA |-> [j \in 0..nB |->
                     IF j = 0 /\ i > 0
                     THEN call_query_gap_function(self, 0, i)
                     ELSE -DBL_MAX]],
     Iy_scores |-> [i \in 0..nA |-> [j \in 0..nB |->
                     IF i = 0 /\ j > 0
                     THEN call_target_gap_function(self, 0, j)
                     ELSE -DBL_MAX]],
     M |-> M, gaps |-> gaps]

RECURSIVE wsb_global_score_loop(_, _, _, _, _, _)
wsb_global_score_loop(self, sA, sB, st, i, j) ==
    LET nA == Len(sA)
        nB == Len(sB)
        sub == self.substitution_matrix[CHARINDEX(sA[i])][CHARINDEX(sB[j])]
        StepIy(s) ==
            [s EXCEPT !.Iy_scores[i][j] =
                wsb_score_Iy(self, s.M_scores, s.Ix_scores, i, j, 1,
                             -DBL_MAX)]
        StepIx(s) ==
            StepIy([s EXCEPT !.Ix_scores[i][j] =
                       wsb_score_Ix(self, s.M_scores, s.Iy_scores, i, j, 1,
                                    -DBL_MAX)])
        StepM(s) ==
            StepIx([s EXCEPT !.M_scores[i][j] =
                       FAdd(Max3(s.M_scores[i - 1][j - 1],
                                 s.Ix_scores[i - 1][j - 1],
                                 s.Iy_scores[i - 1][j - 1]), sub)])
    IN  IF i > nA
        THEN Max3(st.M_scores[nA][nB], st.Ix_scores[nA][nB],
                  st.Iy_scores[nA][nB])
        ELSE wsb_global_score_loop(self, sA, sB, StepM(st),
                                   NextI(i, j, nB), NextJ(i, j, nB))

Aligner_waterman_smith_beyer_global_score(self, sA, sB) ==
    wsb_global_score_loop(self, sA, sB,
        wsb_global_border(self, Len(sA), Len(sB), << >>, << >>), 1, 1)

(* -------------- Waterman-Smith-Beyer global, traceback ----------------- *)
\* one half of SELECT_TRACE_WATERMAN_SMITH_BEYER_GAP: candidate temp for
\* gap length gap, recorded in list which ("gapM" or "gapXY"); a candidate
\* that displaces the best empties both lists first
wsb_gap_step(st, temp, gap, which, epsilon) ==
    LET Record(base) ==
            IF which = "gapM"
            THEN [base EXCEPT !.gapM = Append(base.gapM, gap)]
            ELSE [base EXCEPT !.gapXY = Append(base.gapXY, gap)]
    IN  IF temp > FAdd(st.score, epsilon)
        THEN Record([score |-> temp, gapM |-> << >>, gapXY |-> << >>])
        ELSE IF temp > FAdd(st.score, -epsilon) THEN Record(st)
        ELSE st

\* the loop over gap = 1..i for the vertical gap ending at (i, j)
RECURSIVE wsb_trace_Ix(_, _, _, _, _, _, _)
wsb_trace_Ix(self, Ms, Iys, i, j, gap, st) ==
    LET gapscore == call_query_gap_function(self, j, gap)
        st1 == wsb_gap_step(st, FAdd(Ms[i - gap][j], gapscore), gap,
                            "gapM", self.epsilon)
        st2 == wsb_gap_step(st1, FAdd(Iys[i - gap][j], gapscore), gap,
                            "gapXY", self.epsilon)
    IN  IF gap > i THEN st
        ELSE wsb_trace_Ix(self, Ms, Iys, i, j, gap + 1, st2)

\* the loop over gap = 1..j for the horizontal gap ending at (i, j)
RECURSIVE wsb_trace_Iy(_, _, _, _, _, _, _)
wsb_trace_Iy(self, Ms, Ixs, i, j, gap, st) ==
    LET gapscore == call_target_gap_function(self, i, gap)
        st1 == wsb_gap_step(st, FAdd(Ms[i][j - gap], gapscore), gap,
                            "gapM", self.epsilon)
        st2 == wsb_gap_step(st1, FAdd(Ixs[i][j - gap], gapscore), gap,
                            "gapXY", self.epsilon)
    IN  IF gap > j THEN st
        ELSE wsb_trace_Iy(self, Ms, Ixs, i, j, gap + 1, st2)

NoGap == [score |-> -DBL_MAX, gapM |-> << >>, gapXY |-> << >>]

RECURSIVE wsb_global_align_loop(_, _, _, _, _, _)
wsb_global_align_loop(self, sA, sB, st, i, j) ==
    LET nA == Len(sA)
        nB == Len(sB)
        sub == self.substitution_matrix[CHARINDEX(sA[i])][CHARINDEX(sB[j])]
        StoreIy(s, gy) ==
            [s EXCEPT !.Iy_scores[i][j] = gy.score,
                      !.gaps[i][j].MIy = gy.gapM,
                      !.gaps[i][j].IxIy = gy.gapXY]
        StepIy(s) ==
            StoreIy(s, wsb_trace_Iy(self, s.M_scores, s.Ix_scores, i, j, 1,
                                    NoGap))
        StoreIx(s, gx) ==
            StepIy([s EXCEPT !.Ix_scores[i][j] = gx.score,
                             !.gaps[i][j].MIx = gx.gapM,
                             !.gaps[i][j].IyIx = gx.gapXY])
        StepIx(s) ==
            StoreIx(s, wsb_trace_Ix(self, s.M_scores, s.Iy_scores, i, j, 1,
                                    NoGap))
        StoreM(s, sel) ==
            StepIx([s EXCEPT !.M_scores[i][j] = FAdd(sel.score, sub),
                             !.M[i][j].trace = sel.trace])
        \* SELECT_TRACE_WATERMAN_SMITH_BEYER_GLOBAL_ALIGN
        StepM(s) ==
            StoreM(s, SELECT_TRACE_GOTOH(s.M_scores[i - 1][j - 1],
                          s.Ix_scores[i - 1][j - 1],
                          s.Iy_scores[i - 1][j - 1], self.epsilon))
    IN  IF i > nA THEN st
        ELSE wsb_global_align_loop(self, sA, sB, StepM(st),
                                   NextI(i, j, nB), NextJ(i, j, nB))

Aligner_waterman_smith_beyer_global_align(self, sA, sB, junk) ==
    LET nA == Len(sA)
        nB == Len(sB)
        \* lists of final states that are below the score are dropped
        Trim(paths, st, low) ==
            LET g == st.gaps[nA][nB]
                dropIx == st.Ix_scores[nA][nB] < low
                dropIy == st.Iy_scores[nA][nB] < low
            IN  [paths EXCEPT
                   !.M = [st.M EXCEPT ![nA][nB] =
                            [trace |-> IF st.M_scores[nA][nB] < low THEN 0
                                       ELSE st.M[nA][nB].trace,
                             path |-> 0]],
                   !.gaps = [st.gaps EXCEPT ![nA][nB] =
                            [MIx |-> IF dropIx THEN << >> ELSE g.MIx,
                             IyIx |-> IF dropIx THEN << >> ELSE g.IyIx,
                             MIy |-> IF dropIy THEN << >> ELSE g.MIy,
                             IxIy |-> IF dropIy THEN << >> ELSE g.IxIy]]]
        Finish(paths, st, score) ==
            [score |-> score,
             paths |-> Trim(paths, st, FAdd(score, -self.epsilon))]
        Select(paths, st) ==
            Finish(paths, st, Max3(st.M_scores[nA][nB], st.Ix_scores[nA][nB],
                                   st.Iy_scores[nA][nB]))
        Fill(paths) ==
            Select(paths, wsb_global_align_loop(self, sA, sB,
                       wsb_global_border(self, nA, nB, paths.M, paths.gaps),
                       1, 1))
    IN  Fill(PathGenerator_create_WSB(nA, nB, "Global", junk))

(* ----------- PathGenerator: Waterman-Smith-Beyer global next ----------- *)
\* while (M[i][iB].path == HORIZONTAL) iB++
RECURSIVE RunH(_, _, _)
RunH(M, i, iB) == IF M[i][iB].path = HORIZONTAL THEN RunH(M, i, iB + 1) ELSE iB
\* while (M[iA][j].path == VERTICAL) iA++
RECURSIVE RunV(_, _, _)
RunV(M, iA, j) == IF M[iA][j].path = VERTICAL THEN RunV(M, iA + 1, j) ELSE iA

\* the entry after gap in a 0-terminated list (0 if gap is the last one)
RECURSIVE AfterGap(_, _)
AfterGap(list, gap) ==
    IF Head(list) = gap
    THEN (IF Len(list) > 1 THEN list[2] ELSE 0)
    ELSE AfterGap(Tail(list), gap)
First(list) == IF Len(list) > 0 THEN list[1] ELSE 0

\* M[i][j..iB-1].path = HORIZONTAL, and M[i..iA-1][j].path = VERTICAL
SetH(M, i, j, iB) ==
    [a \in DOMAIN M |-> [b \in DOMAIN M[a] |->
        IF a = i /\ b >= j /\ b < iB
        THEN [M[a][b] EXCEPT !.path = HORIZONTAL] ELSE M[a][b]]]
SetV(M, i, iA, j) ==
    [a \in DOMAIN M |-> [b \in DOMAIN M[a] |->
        IF b = j /\ a >= i /\ a < iA
        THEN [M[a][b] EXCEPT !.path = VERTICAL] ELSE M[a][b]]]

\* the alternative for a gap that runs from its start cell, reached in
\* state m, to the cell whose lists are gapM (from M) and gapXY (from the
\* other gap state, other): the next gap length and the state it leaves
GapAlternative(gapM, gapXY, m, other, len) ==
    LET Choose(nextM, nextXY) ==
            IF nextM # 0 THEN [gap |-> nextM, m |-> m]
            ELSE IF nextXY # 0 THEN [gap |-> nextXY, m |-> other]
            ELSE [gap |-> 0, m |-> m]
    IN  Choose(IF m = M_MATRIX THEN AfterGap(gapM, len) ELSE 0,
               IF m = M_MATRIX THEN First(gapXY)
               ELSE IF m = other THEN AfterGap(gapXY, len)
               ELSE First(gapXY))

\* the pruning loop; result.kind is "end" (path exhausted at the end cell,
\* m shifted), "alt" (alternative found: traceback resumes at (i, j) in
\* state m) or "error" (unexpected path value)
RECURSIVE wsb_global_prune(_, _, _, _)
wsb_global_prune(self, i, j, m) ==
    LET M == self.M
        path == M[i][j].path
        trace == M[i + 1][j + 1].trace
        Horizontal(iB, alt) ==
            IF alt.gap # 0
            THEN [kind |-> "alt",
                  paths |-> [self EXCEPT !.M = SetH(M, i, iB - alt.gap, iB)],
                  i |-> i, j |-> iB - alt.gap, m |-> alt.m]
            ELSE wsb_global_prune(self, i, iB, Iy_MATRIX)
        GapH(iB) ==
            Horizontal(iB, GapAlternative(self.gaps[i][iB].MIy,
                               self.gaps[i][iB].IxIy, m, Ix_MATRIX, iB - j))
        Vertical(iA, alt) ==
            IF alt.gap # 0
            THEN [kind |-> "alt",
                  paths |-> [self EXCEPT !.M = SetV(M, iA - alt.gap, iA, j)],
                  i |-> iA - alt.gap, j |-> j, m |-> alt.m]
            ELSE wsb_global_prune(self, iA, j, Ix_MATRIX)
        GapV(iA) ==
            Vertical(iA, GapAlternative(self.gaps[iA][j].MIx,
                             self.gaps[iA][j].IyIx, m, Iy_MATRIX, iA - i))
    IN  IF path = 0
        THEN [kind |-> "end", paths |-> self, i |-> i, j |-> j, m |-> 2 * m]
        ELSE IF path = HORIZONTAL THEN GapH(RunH(M, i, j))
        ELSE IF path = VERTICAL THEN GapV(RunV(M, i, j))
        ELSE IF path = DIAGONAL
        THEN (IF m = M_MATRIX /\ Has(trace, Ix_MATRIX)
              THEN [kind |-> "alt", paths |-> self, i |-> i, j |-> j,
                    m |-> Ix_MATRIX]
              ELSE IF (m = M_MATRIX \/ m = Ix_MATRIX)
                      /\ Has(trace, Iy_MATRIX)
              THEN [kind |-> "alt", paths |-> self, i |-> i, j |-> j,
                    m |-> Iy_MATRIX]
              ELSE wsb_global_prune(self, i + 1, j + 1, M_MATRIX))
        ELSE [kind |-> "error", paths |-> self, i |-> i, j |-> j, m |-> m]

\* follow the traceback from (i, j) in state m until an M state without
\* predecessor; returns the generator and the cell the path starts at
RECURSIVE wsb_global_traceback(_, _, _, _)
wsb_global_traceback(self, i, j, m) ==
    LET M == self.M
        trace == M[i][j].trace
        pm == IF Has(trace, M_MATRIX) THEN M_MATRIX
              ELSE IF Has(trace, Ix_MATRIX) THEN Ix_MATRIX
              ELSE IF Has(trace, Iy_MATRIX) THEN Iy_MATRIX ELSE 0
        gMx == First(self.gaps[i][j].MIx)
        gapx == IF gMx # 0 THEN gMx ELSE First(self.gaps[i][j].IyIx)
        gMy == First(self.gaps[i][j].MIy)
        gapy == IF gMy # 0 THEN gMy ELSE First(self.gaps[i][j].IxIy)
    IN  IF m = M_MATRIX
        THEN (IF pm = 0 THEN [paths |-> self, i |-> i, j |-> j]
              ELSE wsb_global_traceback(
                       [self EXCEPT !.M[i - 1][j - 1].path = DIAGONAL],
                       i - 1, j - 1, pm))
        ELSE IF m = Ix_MATRIX
        THEN wsb_global_traceback(
                 [self EXCEPT !.M =
                    [SetV(M, i - gapx, i, j) EXCEPT
                        ![i - gapx][j].path = VERTICAL]],
                 i - gapx, j, IF gMx # 0 THEN M_MATRIX ELSE Iy_MATRIX)
        ELSE wsb_global_traceback(
                 [self EXCEPT !.M =
                    [SetH(M, i, j - gapy, j) EXCEPT
                        ![i][j - gapy].path = HORIZONTAL]],
                 i, j - gapy, IF gMy # 0 THEN M_MATRIX ELSE Ix_MATRIX)

PathGenerator_next_waterman_smith_beyer_global(self) ==
    LET nA == self.nA
        nB == self.nB
        g == self.gaps[nA][nB]
        hasIx == First(g.MIx) # 0 \/ First(g.IyIx) # 0
        hasIy == First(g.MIy) # 0 \/ First(g.IxIy) # 0
        \* the final state a new path starts from, given the last one
        End(m) ==
            IF m = M_MATRIX /\ self.M[nA][nB].trace # 0 THEN M_MATRIX
            ELSE IF (m = M_MATRIX \/ m = Ix_MATRIX) /\ hasIx THEN Ix_MATRIX
            ELSE IF (m = M_MATRIX \/ m = Ix_MATRIX \/ m = Iy_MATRIX)
                    /\ hasIy
            THEN Iy_MATRIX
            ELSE 0
        Return(tb) ==
            [paths |-> tb.paths,
             result |-> create_path(tb.paths.M, tb.i, tb.j), error |-> ""]
        Enter(m) ==
            IF m = 0
            THEN [paths |-> [self EXCEPT !.M[0][0].path = DONE],
                  result |-> NULL, error |-> ""]
            ELSE Return(wsb_global_traceback(self, nA, nB, m))
        Pruned(pr) ==
            IF pr.kind = "error"
            THEN [paths |-> self, result |-> NULL, error |-> "RuntimeError"]
            ELSE IF pr.kind = "end" THEN Enter(End(pr.m))
            ELSE Return(wsb_global_traceback(pr.paths, pr.i, pr.j, pr.m))
        Start(path) ==
            IF path = DONE
            THEN [paths |-> self, result |-> NULL, error |-> ""]
            ELSE IF path # 0
            THEN Pruned(wsb_global_prune(self, 0, 0, M_MATRIX))
            ELSE Enter(End(M_MATRIX))
    IN  Start(self.M[0][0].path)

(* ---------- PathGenerator: Waterman-Smith-Beyer lengths ---------------- *)
\* SAFE_ADD of counts[i-gap][j] for every gap of a list, in list order
RECURSIVE AddGapsV(_, _, _, _, _)
AddGapsV(list, counts, i, j, count) ==
    IF list = << >> THEN count
    ELSE AddGapsV(Tail(list), counts, i, j,
                  SAFE_ADD(counts[i - Head(list)][j], count))
\* SAFE_ADD of counts[i][j-gap] for every gap of a list, in list order
RECURSIVE AddGapsH(_, _, _, _, _)
AddGapsH(list, counts, i, j, count) ==
    IF list = << >> THEN count
    ELSE AddGapsH(Tail(list), counts, i, j,
                  SAFE_ADD(counts[i][j - Head(list)], count))

\* the counts of the three states of cell (i, j); local tells whether an
\* M state without predecessor counts only at a STARTPOINT
wsb_length_cell(self, st, i, j, local) ==
    LET trace == self.M[i][j].trace
        g == self.gaps[i][j]
        StepIy(s) ==
            [s EXCEPT !.Iy_count[i][j] =
                AddGapsH(g.IxIy, s.Ix_count, i, j,
                         AddGapsH(g.MIy, s.M_count, i, j, 0))]
        StepIx(s) ==
            StepIy([s EXCEPT !.Ix_count[i][j] =
                       AddGapsV(g.IyIx, s.Iy_count, i, j,
                                AddGapsV(g.MIx, s.M_count, i, j, 0))])
        StoreM(count) ==
            StepIx([st EXCEPT !.M_count[i][j] = count,
                              !.total = IF local /\ Has(trace, ENDPOINT)
                                        THEN SAFE_ADD(count, st.total)
                                        ELSE st.total])
        Started(count) ==
            StoreM(IF count = 0 /\ (~local \/ Has(trace, STARTPOINT)) THEN 1
                   ELSE count)
    IN  Started(IF AnyState(trace)
                THEN Add3(trace, st.M_count[i - 1][j - 1],
                          st.Ix_count[i - 1][j - 1],
                          st.Iy_count[i - 1][j - 1])
                ELSE 0)

\* both loops run over 0..nA x 0..nB
RECURSIVE wsb_length_loop(_, _, _, _, _)
wsb_length_loop(self, st, i, j, local) ==
    IF i > self.nA THEN st
    ELSE wsb_length_loop(self, wsb_length_cell(self, st, i, j, local),
                         IF j = self.nB THEN i + 1 ELSE i,
                         IF j = self.nB THEN 0 ELSE j + 1, local)

wsb_length_start(self) ==
    LET zero == [i \in 0..self.nA |-> [j \in 0..self.nB |-> 0]]
    IN  [M_count |-> zero, Ix_count |-> zero, Iy_count |-> zero, total |-> 0]

PathGenerator_waterman_smith_beyer_global_length(self) ==
    LET nA == self.nA
        nB == self.nB
        g == self.gaps[nA][nB]
        \* the sum over the final states that have a trace
        Sum(st) ==
            LET SumIy(count) ==
                    IF First(g.MIy) # 0 \/ First(g.IxIy) # 0
                    THEN SAFE_ADD(st.Iy_count[nA][nB], count) ELSE count
                SumIx(count) ==
                    SumIy(IF First(g.MIx) # 0 \/ First(g.IyIx) # 0
                          THEN SAFE_ADD(st.Ix_count[nA][nB], count)
                          ELSE count)
            IN  SumIx(IF self.M[nA][nB].trace # 0
                      THEN SAFE_ADD(st.M_count[nA][nB], 0) ELSE 0)
    IN  Sum(wsb_length_loop(self, wsb_length_start(self), 0, 0, FALSE))

PathGenerator_waterman_smith_beyer_local_length(self) ==
    wsb_length_loop(self, wsb_length_start(self), 0, 0, TRUE).total

(* -------------- Waterman-Smith-Beyer local, score only ----------------- *)
RECURSIVE wsb_local_score_loop(_, _, _, _, _, _)
wsb_local_score_loop(self, sA, sB, st, i, j) ==
    LET nA == Len(sA)
        nB == Len(sB)
        sub == self.substitution_matrix[CHARINDEX(sA[i])][CHARINDEX(sB[j])]
        inner == i < nA /\ j < nB
        StoreIy(s, score) ==
            [s EXCEPT !.Iy_scores[i][j] = score,
                      !.maximum = Larger(s.maximum, score)]
        StepIy(s) ==
            StoreIy(s, IF inner
                       THEN wsb_score_Iy(self, s.M_scores, s.Ix_scores,
                                         i, j, 1, 0)
                       ELSE 0)
        StoreIx(s, score) ==
            StepIy([s EXCEPT !.Ix_scores[i][j] = score,
                             !.maximum = Larger(s.maximum, score)])
        StepIx(s) ==
            StoreIx(s, IF inner
                       THEN wsb_score_Ix(self, s.M_scores, s.Iy_scores,
                                         i, j, 1, 0)
                       ELSE 0)
        StoreM(s, score) ==
            StepIx([s EXCEPT !.M_scores[i][j] = score,
                             !.maximum = Larger(s.maximum, score)])
        \* SELECT_SCORE_GOTOH_LOCAL_ALIGN
        StepM(s) ==
            StoreM(s, LocalClamp(FAdd(Max3(s.M_scores[i - 1][j - 1],
                                           s.Ix_scores[i - 1][j - 1],
                                           s.Iy_scores[i - 1][j - 1]), sub)))
    IN  IF i > nA
        THEN Larger(st.maximum,
                    Max3(st.M_scores[nA][nB], st.Ix_scores[nA][nB],
                         st.Iy_scores[nA][nB]))
        ELSE wsb_local_score_loop(self, sA, sB, StepM(st),
                                  NextI(i, j, nB), NextJ(i, j, nB))

Aligner_waterman_smith_beyer_local_score(self, sA, sB) ==
    LET nA == Len(sA)
        nB == Len(sB)
    IN  wsb_local_score_loop(self, sA, sB,
            [M_scores |-> [i \in 0..nA |-> [j \in 0..nB |->
                             IF i = 0 /\ j = 0 THEN 0 ELSE -DBL_MAX]],
             Ix_scores |-> [i \in 0..nA |-> [j \in 0..nB |->
                             IF j = 0 /\ i > 0 THEN 0 ELSE -DBL_MAX]],
             Iy_scores |-> [i \in 0..nA |-> [j \in 0..nB |->
                             IF i = 0 /\ j > 0 THEN 0 ELSE -DBL_MAX]],
             maximum |-> 0], 1, 1)

(* --------------- Waterman-Smith-Beyer local, traceback ----------------- *)
\* a gap state below epsilon is switched off and loses its lists
wsb_local_gap(g, epsilon) == IF g.score < epsilon THEN NoGap ELSE g

\* SELECT_TRACE_WATERMAN_SMITH_BEYER_ALIGN: sel is the choice among the
\* three predecessor states of the cell diagonally before (i, j)
SELECT_TRACE_WATERMAN_SMITH_BEYER_ALIGN(st, sel, sub, epsilon, i, j) ==
    LET Store(raw) ==
            LET low == raw < epsilon
                isEnd == ~low /\ raw > st.maximum - epsilon
                isNew == isEnd /\ raw > st.maximum + epsilon
            IN  [st EXCEPT
                   !.M_scores[i][j] = IF low THEN 0 ELSE raw,
                   !.M = [(IF isNew
                           THEN ClearEndpoints(st.M, st.im, st.jm, i, j)
                           ELSE st.M) EXCEPT ![i][j] =
                              [trace |-> IF low THEN STARTPOINT
                                         ELSE IF isEnd
                                         THEN BitOr(sel.trace, ENDPOINT)
                                         ELSE sel.trace,
                               path |-> 0]],
                   !.maximum = IF isNew THEN raw ELSE st.maximum,
                   !.im = IF isNew THEN i ELSE st.im,
                   !.jm = IF isNew THEN j ELSE st.jm]
    IN  Store(FAdd(sel.score, sub))

RECURSIVE wsb_local_align_loop(_, _, _, _, _, _)
wsb_local_align_loop(self, sA, sB, st, i, j) ==
    LET nA == Len(sA)
        nB == Len(sB)
        epsilon == self.epsilon
        sub == self.substitution_matrix[CHARINDEX(sA[i])][CHARINDEX(sB[j])]
        inner == i < nA /\ j < nB
        \* in the last row and column the gap states copy the score of M
        Copy(s) == [score |-> s.M_scores[i][j], gapM |-> << >>,
                    gapXY |-> << >>]
        StoreIy(s, g) ==
            [s EXCEPT !.Iy_scores[i][j] = g.score,
                      !.gaps[i][j].MIy = g.gapM,
                      !.gaps[i][j].IxIy = g.gapXY,
                      !.maximum = IF inner THEN Larger(s.maximum, g.score)
                                  ELSE s.maximum]
        StepIy(s) ==
            StoreIy(s, IF inner
                       THEN wsb_local_gap(
                                wsb_trace_Iy(self, s.M_scores, s.Ix_scores,
                                             i, j, 1, NoGap), epsilon)
                       ELSE Copy(s))
        StoreIx(s, g) ==
            StepIy([s EXCEPT !.Ix_scores[i][j] = g.score,
                             !.gaps[i][j].MIx = g.gapM,
                             !.gaps[i][j].IyIx = g.gapXY,
                             !.maximum = IF inner
                                         THEN Larger(s.maximum, g.score)
                                         ELSE s.maximum])
        StepIx(s) ==
            StoreIx(s, IF inner
                       THEN wsb_local_gap(
                                wsb_trace_Ix(self, s.M_scores, s.Iy_scores,
                                             i, j, 1, NoGap), epsilon)
                       ELSE Copy(s))
        StepM(s) ==
            StepIx(SELECT_TRACE_WATERMAN_SMITH_BEYER_ALIGN(s,
                       SELECT_TRACE_GOTOH(s.M_scores[i - 1][j - 1],
                           s.Ix_scores[i - 1][j - 1],
                           s.Iy_scores[i - 1][j - 1], epsilon),
                       sub, epsilon, i, j))
    IN  IF i > nA THEN st
        ELSE wsb_local_align_loop(self, sA, sB, StepM(st),
                                  NextI(i, j, nB), NextJ(i, j, nB))

\* the gaps of a list whose start cell can reach state bit: the list is
\* compacted in place, keeping its order
RECURSIVE KeepGapsV(_, _, _, _, _)
KeepGapsV(list, M, i, j, bit) ==
    IF list = << >> THEN << >>
    ELSE (IF Has(M[i - Head(list)][j].path, bit) THEN << Head(list) >>
          ELSE << >>) \o KeepGapsV(Tail(list), M, i, j, bit)
RECURSIVE KeepGapsH(_, _, _, _, _)
KeepGapsH(list, M, i, j, bit) ==
    IF list = << >> THEN << >>
    ELSE (IF Has(M[i][j - Head(list)].path, bit) THEN << Head(list) >>
          ELSE << >>) \o KeepGapsH(Tail(list), M, i, j, bit)

\* the reachability sweep over the cells 1..nA x 1..nB
RECURSIVE wsb_local_sweep(_, _, _)
wsb_local_sweep(self, i, j) ==
    LET M == self.M
        g == self.gaps[i][j]
        inner == i < self.nA /\ j < self.nB
        Cell(tM, MIx, IyIx, MIy, IxIy) ==
            LET okM == Has(tM, STARTPOINT) \/ AnyState(tM)
                SetIy(p) ==
                    IF MIy = << >> /\ IxIy = << >>
                    THEN BitClear(p, Iy_MATRIX) ELSE BitOr(p, Iy_MATRIX)
                SetIx(p) ==
                    SetIy(IF MIx = << >> /\ IyIx = << >>
                          THEN BitClear(p, Ix_MATRIX)
                          ELSE BitOr(p, Ix_MATRIX))
                SetGaps(p) == IF inner THEN SetIx(p) ELSE p
            IN  [self EXCEPT
                   !.M[i][j] =
                      [trace |-> IF okM THEN tM ELSE 0,
                       path |-> SetGaps(IF okM
                                        THEN (IF Has(tM, ENDPOINT) THEN 0
                                              ELSE BitOr(M[i][j].path,
                                                         M_MATRIX))
                                        ELSE BitClear(M[i][j].path,
                                                      M_MATRIX))],
                   !.gaps[i][j] =
                      IF inner
                      THEN [MIx |-> MIx, IyIx |-> IyIx,
                            MIy |-> MIy, IxIy |-> IxIy]
                      ELSE g]
    IN  IF i > self.nA THEN self
        ELSE wsb_local_sweep(
                 Cell(KeepReachable(M[i][j].trace, M[i - 1][j - 1].path),
                      KeepGapsV(g.MIx, M, i, j, M_MATRIX),
                      KeepGapsV(g.IyIx, M, i, j, Iy_MATRIX),
                      KeepGapsH(g.MIy, M, i, j, M_MATRIX),
                      KeepGapsH(g.IxIy, M, i, j, Ix_MATRIX)),
                 NextI(i, j, self.nB), NextJ(i, j, self.nB))

Aligner_waterman_smith_beyer_local_align(self, sA, sB, junk) ==
    LET nA == Len(sA)
        nB == Len(sB)
        Finish(maximum, swept) ==
            [score |-> maximum,
             paths |-> [swept EXCEPT !.M[0][0].path =
                           IF maximum = 0 THEN DONE ELSE 0]]
        Sweep(paths, st) ==
            Finish(st.maximum,
                   wsb_local_sweep(
                       [paths EXCEPT
                          !.M = [i \in 0..nA |-> [j \in 0..nB |->
                                   IF i = 0 \/ j = 0
                                   THEN [st.M[i][j] EXCEPT !.path = M_MATRIX]
                                   ELSE st.M[i][j]]],
                          !.gaps = st.gaps], 1, 1))
        Fill(paths) ==
            Sweep(paths, wsb_local_align_loop(self, sA, sB,
                [M_scores |-> [i \in 0..nA |-> [j \in 0..nB |->
                                 IF i = 0 \/ j = 0 THEN 0 ELSE -DBL_MAX]],
                 Ix_scores |-> [i \in 0..nA |-> [j \in 0..nB |-> -DBL_MAX]],
                 Iy_scores |-> [i \in 0..nA |-> [j \in 0..nB |-> -DBL_MAX]],
                 M |-> paths.M, gaps |-> paths.gaps,
                 maximum |-> 0, im |-> nA, jm |-> nB], 1, 1))
    IN  Fill(PathGenerator_create_WSB(nA, nB, "Local", junk))

(* ----------- PathGenerator: Waterman-Smith-Beyer local next ------------ *)
\* the traceback loop of local mode: an M state stops at a trace that is
\* exactly STARTPOINT; an M state without predecessor is an error
RECURSIVE wsb_local_traceback(_, _, _, _)
wsb_local_traceback(self, i, j, m) ==
    LET M == self.M
        trace == M[i][j].trace
        pm == IF Has(trace, M_MATRIX) THEN M_MATRIX
              ELSE IF Has(trace, Ix_MATRIX) THEN Ix_MATRIX
              ELSE IF Has(trace, Iy_MATRIX) THEN Iy_MATRIX ELSE 0
        gMx == First(self.gaps[i][j].MIx)
        gapx == IF gMx # 0 THEN gMx ELSE First(self.gaps[i][j].IyIx)
        gMy == First(self.gaps[i][j].MIy)
        gapy == IF gMy # 0 THEN gMy ELSE First(self.gaps[i][j].IxIy)
    IN  IF m = M_MATRIX
        THEN (IF pm # 0
              THEN wsb_local_traceback(
                       [self EXCEPT !.M[i - 1][j - 1].path = DIAGONAL],
                       i - 1, j - 1, pm)
              ELSE [paths |-> self, i |-> i, j |-> j,
                    ok |-> trace = STARTPOINT])
        ELSE IF m = Ix_MATRIX
        THEN wsb_local_traceback([self EXCEPT !.M = SetV(M, i - gapx, i, j)],
                 i - gapx, j, IF gMx # 0 THEN M_MATRIX ELSE Iy_MATRIX)
        ELSE wsb_local_traceback([self EXCEPT !.M = SetH(M, i, j - gapy, j)],
                 i, j - gapy, IF gMy # 0 THEN M_MATRIX ELSE Ix_MATRIX)

PathGenerator_next_waterman_smith_beyer_local(self) ==
    LET nA == self.nA
        nB == self.nB
        Return(tb) ==
            IF ~tb.ok
            THEN [paths |-> tb.paths, result |-> NULL,
                  error |-> "RuntimeError"]
            ELSE [paths |-> [tb.paths EXCEPT !.iA = tb.i, !.iB = tb.j],
                  result |-> create_path(tb.paths.M, tb.i, tb.j),
                  error |-> ""]
        Endpoint(ep) ==
            IF ~ep.found
            THEN [paths |-> [self EXCEPT !.M[0][0].path = DONE],
                  result |-> NULL, error |-> ""]
            ELSE Return(wsb_local_traceback(
                            [self EXCEPT !.M[ep.i][ep.j].path = 0],
                            ep.i, ep.j, M_MATRIX))
        \* the pruning loop is the one of global mode, except that any path
        \* value other than a step ends the stored path
        Pruned(pr) ==
            IF pr.kind = "alt"
            THEN Return(wsb_local_traceback(pr.paths, pr.i, pr.j, pr.m))
            ELSE Endpoint(smithwaterman_endpoint(self.M, nA, nB, pr.i, pr.j))
        Start(path) ==
            IF path # 0
            THEN Pruned(wsb_global_prune(self, self.iA, self.iB, M_MATRIX))
            ELSE Endpoint(smithwaterman_endpoint(self.M, nA, nB,
                                                 self.iA, self.iB))
    IN  IF self.M[0][0].path = DONE
        THEN [paths |-> self, result |-> NULL, error |-> ""]
        ELSE Start(self.M[self.iA][self.iB].path)

(* --------------------------- dispatchers ------------------------------- *)
\* _get_algorithm: the algorithm the configuration selects
get_algorithm(self) ==
    IF self.algorithm # "Unknown" THEN self.algorithm
    ELSE IF self.target_gap_function # "NULL"
            \/ self.query_gap_function # "NULL"
    THEN "WatermanSmithBeyer"
    ELSE IF /\ self.target_open_gap_score = self.target_extend_gap_score
            /\ self.query_open_gap_score = self.query_extend_gap_score
            /\ self.target_left_open_gap_score
                 = self.target_left_extend_gap_score
            /\ self.target_right_open_gap_score
                 = self.target_right_extend_gap_score
            /\ self.query_left_open_gap_score
                 = self.query_left_extend_gap_score
            /\ self.query_right_open_gap_score
                 = self.query_right_extend_gap_score
    THEN "NeedlemanWunschSmithWaterman"
    ELSE "Gotoh"

Aligner_score(self, a, b) ==
    LET algorithm == get_algorithm(self)
    IN  IF algorithm = "NeedlemanWunschSmithWaterman"
        THEN (IF self.mode = "Global"
              THEN Aligner_needlemanwunsch_score(self, a, b)
              ELSE Aligner_smithwaterman_score(self, a, b))
        ELSE IF algorithm = "Gotoh"
        THEN (IF self.mode = "Global"
              THEN Aligner_gotoh_global_score(self, a, b)
              ELSE Aligner_gotoh_local_score(self, a, b))
        ELSE (IF self.mode = "Global"
              THEN Aligner_waterman_smith_beyer_global_score(self, a, b)
              ELSE Aligner_waterman_smith_beyer_local_score(self, a, b))

\* Aligner_align: a variant that takes every mode for the global one
Aligner_align_always_global(self, a, b, junk) ==
    LET algorithm == get_algorithm(self)
    IN  IF algorithm = "NeedlemanWunschSmithWaterman"
        THEN Aligner_needlemanwunsch_align(self, a, b, junk)
        ELSE IF algorithm = "Gotoh"
        THEN Aligner_gotoh_global_align(self, a, b, junk)
        ELSE Aligner_waterman_smith_beyer_global_align(self, a, b, junk)

\* returns the score and the generator
Aligner_align(self, a, b, junk) ==
    LET algorithm == get_algorithm(self)
    IN  IF algorithm = "NeedlemanWunschSmithWaterman"
        THEN (IF self.mode = "Global"
              THEN Aligner_needlemanwunsch_align(self, a, b, junk)
              ELSE Aligner_smithwaterman_align(self, a, b, junk))
        ELSE IF algorithm = "Gotoh"
        THEN (IF self.mode = "Global"
              THEN Aligner_gotoh_global_align(self, a, b, junk)
              ELSE Aligner_gotoh_local_align(self, a, b, junk))
        ELSE (IF self.mode = "Global"
              THEN Aligner_waterman_smith_beyer_global_align(self, a, b, junk)
              ELSE Aligner_waterman_smith_beyer_local_align(self, a, b, junk))

\* returns the generator after the call, the path (NULL at the end) and
\* the exception raised, if any
PathGenerator_next(self) ==
    IF self.algorithm = "NeedlemanWunschSmithWaterman"
    THEN (IF self.mode = "Global"
          THEN PathGenerator_next_needlemanwunsch(self)
          ELSE PathGenerator_next_smithwaterman(self))
    ELSE IF self.algorithm = "Gotoh"
    THEN (IF self.mode = "Global"
          THEN PathGenerator_next_gotoh_global(self)
          ELSE PathGenerator_next_gotoh_local(self))
    ELSE IF self.algorithm = "WatermanSmithBeyer"
    THEN (IF self.mode = "Global"
          THEN PathGenerator_next_waterman_smith_beyer_global(self)
          ELSE PathGenerator_next_waterman_smith_beyer_local(self))
    ELSE [paths |-> self, result |-> NULL, error |-> "RuntimeError"]

\* the count of the algorithm and mode of the generator
length_of(self) ==
    IF self.algorithm = "NeedlemanWunschSmithWaterman"
    THEN (IF self.mode = "Global"
          THEN PathGenerator_needlemanwunsch_length(self)
          ELSE PathGenerator_smithwaterman_length(self))
    ELSE IF self.algorithm = "Gotoh"
    THEN (IF self.mode = "Global"
          THEN PathGenerator_gotoh_global_length(self)
          ELSE PathGenerator_gotoh_local_length(self))
    ELSE (IF self.mode = "Global"
          THEN PathGenerator_waterman_smith_beyer_global_length(self)
          ELSE PathGenerator_waterman_smith_beyer_local_length(self))

\* PathGenerator_length: a stored length of 0 is computed again
PathGenerator_length(self) ==
    IF self.length = 0 THEN length_of(self) ELSE self.length

\* a variant of reset that leaves the cursor (iA, iB) where it is
PathGenerator_reset_keeping_cursor(self) ==
    IF self.algorithm = "WatermanSmithBeyer"
    THEN [self EXCEPT !.M[0][0].path = 0]
    ELSE IF self.algorithm = "Unknown" THEN self
    ELSE IF self.M[0][0].path # NONE THEN [self EXCEPT !.M[0][0].path = 0]
    ELSE self

\* PathGenerator_reset: a variant that clears the trace of M[0][0] too
PathGenerator_reset_clearing_trace(self) ==
    [self EXCEPT !.iA = 0, !.iB = 0,
                 !.M[0][0] = [trace |-> 0, path |-> 0]]

\* PathGenerator_reset: Local falls through to the Global case
PathGenerator_reset(self) ==
    LET p == IF self.mode = "Local" THEN [self EXCEPT !.iA = 0, !.iB = 0]
             ELSE self
    IN  IF p.algorithm = "WatermanSmithBeyer"
        THEN [p EXCEPT !.M[0][0].path = 0]
        ELSE IF p.algorithm = "Unknown" THEN p
        ELSE IF p.M[0][0].path # NONE THEN [p EXCEPT !.M[0][0].path = 0]
        ELSE p

(* -------------------------- configurations ----------------------------- *)
\* the setters of the gap scores of one sequence, as
\* <<open, extend, left_open, left_extend, right_open, right_extend>>;
\* every setter forgets the algorithm
Aligner_set_gap_scores(self, t, q) ==
    [self EXCEPT
       !.target_open_gap_score = t[1], !.target_extend_gap_score = t[2],
       !.target_left_open_gap_score = t[3],
       !.target_left_extend_gap_score = t[4],
       !.target_right_open_gap_score = t[5],
       !.target_right_extend_gap_score = t[6],
       !.query_open_gap_score = q[1], !.query_extend_gap_score = q[2],
       !.query_left_open_gap_score = q[3],
       !.query_left_extend_gap_score = q[4],
       !.query_right_open_gap_score = q[5],
       !.query_right_extend_gap_score = q[6],
       !.algorithm = "Unknown"]

\* the setters of the gap scores, by the name of the attribute
\* (Aligner_set_<name>): the fields of the aligner a number assigned to
\* the attribute is stored in, and the gap functions it removes
GapScoreSetters ==
    [gap_score |->
        {"target_open_gap_score", "target_extend_gap_score",
         "target_left_open_gap_score", "target_left_extend_gap_score",
         "target_right_open_gap_score", "target_right_extend_gap_score",
         "query_open_gap_score", "query_extend_gap_score",
         "query_left_open_gap_score", "query_left_extend_gap_score",
         "query_right_open_gap_score", "query_right_extend_gap_score",
         "target_gap_function", "query_gap_function"},
     open_gap_score |->
        {"target_open_gap_score", "target_left_open_gap_score",
         "target_right_open_gap_score", "query_open_gap_score",
         "query_left_open_gap_score", "query_right_open_gap_score",
         "target_gap_function", "query_gap_function"},
     extend_gap_score |->
        {"target_extend_gap_score", "target_left_extend_gap_score",
         "target_right_extend_gap_score", "query_extend_gap_score",
         "query_left_extend_gap_score", "query_right_extend_gap_score",
         "target_gap_function", "query_gap_function"},
     internal_gap_score |->
        {"target_open_gap_score", "target_extend_gap_score",
         "query_open_gap_score", "query_extend_gap_score",
         "target_gap_function", "query_gap_function"},
     internal_open_gap_score |->
        {"target_open_gap_score", "query_open_gap_score",
         "target_gap_function", "query_gap_function"},
     internal_extend_gap_score |->
        {"target_extend_gap_score", "query_extend_gap_score",
         "target_gap_function", "query_gap_function"},
     end_gap_score |->
        {"target_left_open_gap_score", "target_left_extend_gap_score",
         "target_right_open_gap_score", "target_right_extend_gap_score",
         "query_left_open_gap_score", "query_left_extend_gap_score",
         "query_right_open_gap_score", "query_right_extend_gap_score",
         "target_gap_function", "query_gap_function"},
     end_open_gap_score |->
        {"target_left_open_gap_score", "target_right_open_gap_score",
         "query_left_open_gap_score", "query_right_open_gap_score",
         "target_gap_function", "query_gap_function"},
     end_extend_gap_score |->
        {"target_left_extend_gap_score", "target_right_extend_gap_score",
         "query_left_extend_gap_score", "query_right_extend_gap_score",
         "target_gap_function", "query_gap_function"},
     left_gap_score |->
        {"target_left_open_gap_score", "target_left_extend_gap_score",
         "query_left_open_gap_score", "query_left_extend_gap_score",
         "target_gap_function", "query_gap_function"},
     right_gap_score |->
        {"target_right_open_gap_score", "target_right_extend_gap_score",
         "query_right_open_gap_score", "query_right_extend_gap_score",
         "target_gap_function", "query_gap_function"},
     left_open_gap_score |->
        {"target_left_open_gap_score", "query_left_open_gap_score",
         "target_gap_function", "query_gap_function"},
     left_extend_gap_score |->
        {"target_left_extend_gap_score", "query_left_extend_gap_score",
         "target_gap_function", "query_gap_function"},
     right_open_gap_score |->
        {"target_right_open_gap_score", "query_right_open_gap_score",
         "target_gap_function", "query_gap_function"},
     right_extend_gap_score |->
        {"target_right_extend_gap_score", "query_right_extend_gap_score",
         "target_gap_function", "query_gap_function"},
     target_open_gap_score |->
        {"target_open_gap_score", "target_left_open_gap_score",
         "target_right_open_gap_score", "target_gap_function"},
     target_extend_gap_score |->
        {"target_extend_gap_score", "target_left_extend_gap_score",
         "target_right_extend_gap_score", "target_gap_function"},
     target_gap_score |->
        {"target_open_gap_score", "target_extend_gap_score",
         "target_left_open_gap_score", "target_left_extend_gap_score",
         "target_right_open_gap_score", "target_right_extend_gap_score",
         "target_gap_function"},
     query_open_gap_score |->
        {"query_open_gap_score", "query_left_open_gap_score",
         "query_right_open_gap_score", "query_gap_function"},
     query_extend_gap_score |->
        {"query_extend_gap_score", "query_left_extend_gap_score",
         "query_right_extend_gap_score", "query_gap_function"},
     query_gap_score |->
        {"query_open_gap_score", "query_extend_gap_score",
         "query_left_open_gap_score", "query_left_extend_gap_score",
         "query_right_open_gap_score", "query_right_extend_gap_score",
         "query_gap_function"},
     target_internal_open_gap_score |->
        {"target_open_gap_score", "target_gap_function"},
     target_internal_extend_gap_score |->
        {"target_extend_gap_score", "target_gap_function"},
     target_internal_gap_score |->
        {"target_open_gap_score", "target_extend_gap_score",
         "target_gap_function"},
     target_end_gap_score |->
        {"target_left_open_gap_score", "target_left_extend_gap_score",
         "target_right_open_gap_score", "target_right_extend_gap_score",
         "target_gap_function"},
     target_end_open_gap_score |->
        {"target_left_open_gap_score", "target_right_open_gap_score",
         "target_gap_function"},
     target_end_extend_gap_score |->
        {"target_left_extend_gap_score", "target_right_extend_gap_score",
         "target_gap_function"},
     target_left_open_gap_score |->
        {"target_left_open_gap_score", "target_gap_function"},
     target_left_extend_gap_score |->
        {"target_left_extend_gap_score", "target_gap_function"},
     target_left_gap_score |->
        {"target_left_open_gap_score", "target_left_extend_gap_score",
         "target_gap_function"},
     target_right_open_gap_score |->
        {"target_right_open_gap_score", "target_gap_function"},
     target_right_extend_gap_score |->
        {"target_right_extend_gap_score", "target_gap_function"},
     target_right_gap_score |->
        {"target_right_open_gap_score", "target_right_extend_gap_score",
         "target_gap_function"},
     query_end_gap_score |->
        {"query_left_open_gap_score", "query_left_extend_gap_score",
         "query_right_open_gap_score", "query_right_extend_gap_score",
         "query_gap_function"},
     query_end_open_gap_score |->
        {"query_left_open_gap_score", "query_right_open_gap_score",
         "query_gap_function"},
     query_end_extend_gap_score |->
        {"query_left_extend_gap_score", "query_right_extend_gap_score",
         "query_gap_function"},
     query_internal_open_gap_score |->
        {"query_open_gap_score", "query_gap_function"},
     query_internal_extend_gap_score |->
        {"query_extend_gap_score", "query_gap_function"},
     query_internal_gap_score |->
        {"query_open_gap_score", "query_extend_gap_score",
         "query_gap_function"},
     query_left_open_gap_score |->
        {"query_left_open_gap_score", "query_gap_function"},
     query_left_extend_gap_score |->
        {"query_left_extend_gap_score", "query_gap_function"},
     query_left_gap_score |->
        {"query_left_open_gap_score", "query_left_extend_gap_score",
         "query_gap_function"},
     query_right_open_gap_score |->
        {"query_right_open_gap_score", "query_gap_function"},
     query_right_extend_gap_score |->
        {"query_right_extend_gap_score", "query_gap_function"},
     query_right_gap_score |->
        {"query_right_open_gap_score", "query_right_extend_gap_score",
         "query_gap_function"}]

\* Aligner_set_<setter>(self, value) for a number: a variant that keeps
\* the algorithm chosen before
Aligner_set_gap_keeping_algorithm(self, setter, score) ==
    [f \in DOMAIN self |->
        IF f \in GapScoreSetters[setter]
        THEN (IF f \in {"target_gap_function", "query_gap_function"}
              THEN "NULL" ELSE score)
        ELSE self[f]]

\* Aligner_set_<setter>(self, value) for a number
Aligner_set_gap(self, setter, score) ==
    [f \in DOMAIN self |->
        IF f \in GapScoreSetters[setter]
        THEN (IF f \in {"target_gap_function", "query_gap_function"}
              THEN "NULL" ELSE score)
        ELSE IF f = "algorithm" THEN "Unknown"
        ELSE self[f]]

\* the three setters that accept a callable, and the gap functions a
\* callable assigned to them replaces
GapFunctionSetters ==
    [gap_score |-> {"target_gap_function", "query_gap_function"},
     target_gap_score |-> {"target_gap_function"},
     query_gap_score |-> {"query_gap_function"}]

\* Aligner_set_<setter>(self, value) for a callable
Aligner_set_gap_function(self, setter, function) ==
    [f \in DOMAIN self |->
        IF f \in GapFunctionSetters[setter] THEN function
        ELSE IF f = "algorithm" THEN "Unknown"
        ELSE self[f]]

\* an aligner built with match score 2 and then configured
Configure(mode, mismatch, epsilon, t, q, tfun, qfun) ==
    Aligner_set_gap_scores(
        [Aligner_init(2, mismatch) EXCEPT
           !.mode = mode, !.epsilon = epsilon,
           !.target_gap_function = tfun, !.query_gap_function = qfun],
        t, q)

Free == << 0, 0, 0, 0, 0, 0 >>
Linear == << -2, -2, -2, -2, -2, -2 >>
RightOnly == << 0, 0, 0, 0, -2, -2 >>
EndsT == << -2, -2, 0, 0, -4, -4 >>
EndsQ == << -4, -4, -2, -2, 0, 0 >>
Affine == << -4, -2, -4, -2, -4, -2 >>
AffineEnds == << -4, -2, -2, 0, -2, -2 >>
OpenFree == << 0, -2, 0, -2, 0, -2 >>

\* the configurations explored: open = extend everywhere selects
\* Needleman-Wunsch / Smith-Waterman, a gap function selects
\* Waterman-Smith-Beyer, anything else Gotoh
Configurations ==
    { Configure("Global", -2, 1, Linear, Linear, "NULL", "NULL"),
      Configure("Global", 0, 1, Free, Free, "NULL", "NULL"),
      Configure("Global", -2, 1, Free, RightOnly, "NULL", "NULL"),
      Configure("Global", -2, 1, EndsT, EndsQ, "NULL", "NULL"),
      Configure("Global", 0, 0, Free, Free, "NULL", "NULL"),
      Configure("Global", -2, 2, Linear, Linear, "NULL", "NULL"),
      Configure("Local", -2, 1, Linear, Linear, "NULL", "NULL"),
      Configure("Local", 0, 1, Free, Free, "NULL", "NULL"),
      Configure("Local", -2, 2, Linear, Linear, "NULL", "NULL"),
      Configure("Local", 0, 0, Free, Free, "NULL", "NULL"),
      Configure("Local", -2, 0, Free, Free, "NULL", "NULL"),
      Configure("Global", -2, 1, Affine, Affine, "NULL", "NULL"),
      Configure("Global", 0, 1, AffineEnds, OpenFree, "NULL", "NULL"),
      Configure("Global", -2, 2, Affine, Affine, "NULL", "NULL"),
      Configure("Local", -2, 1, Affine, Affine, "NULL", "NULL"),
      Configure("Local", 0, 1, OpenFree, Free, "NULL", "NULL"),
      Configure("Local", -2, 2, Affine, Affine, "NULL", "NULL"),
      Configure("Global", -2, 1, Free, Free, "linear", "linear"),
      Configure("Global", 0, 1, Free, Free, "capped", "bypos"),
      Configure("Global", 0, 2, Linear, Free, "NULL", "linear"),
      Configure("Local", -2, 1, Free, Free, "linear", "linear"),
      Configure("Local", 0, 1, Free, Free, "capped", "NULL"),
      Configure("Local", -2, 2, Free, Free, "linear", "linear") }

\* the sequences: letters 'A' and 'C', lengths 1..MaxLen
Strings == UNION { [1..n -> {0, 2}] : n \in 1..MaxLen }

\* what the allocator may have left in a path field that is not written
Residue == {0, DIAGONAL}

\* the elements of a sequence
Range(seq) == { seq[k] : k \in 1..Len(seq) }

(* --------------------------- state machine ----------------------------- *)
VARIABLES
    aligner,    \* the Aligner object
    sA, sB,     \* the two sequences of the calls
    paths,      \* the PathGenerator align() returned (NoPaths before)
    lastScore,  \* << >>, or << the value score() returned >>
    alignScore, \* << >>, or << the score align() returned >>
    returned,   \* the paths next() returned since align() or reset()
    stopped,    \* next() returned NULL without an exception since then
    error,      \* the exception next() raised, "" if none
    lenResult,  \* << >>, or << the value len() returned >>
    wasReset,   \* reset() was called on this generator
    again,      \* next() was called after it had returned NULL, since then
    candidates, \* << >>, or the scores a SELECT_TRACE macro is given
    selection   \* << >>, or << the macro, the score and trace it chose >>

vars == << aligner, sA, sB, paths, lastScore, alignScore, returned, stopped,
           error, lenResult, wasReset, again, candidates, selection >>

Init ==
    /\ aligner \in Configurations
    /\ sA \in Strings
    /\ sB \in Strings
    /\ paths = NoPaths
    /\ lastScore = << >>
    /\ alignScore = << >>
    /\ returned = << >>
    /\ stopped = FALSE
    /\ error = ""
    /\ lenResult = << >>
    /\ wasReset = FALSE
    /\ again = FALSE
    /\ candidates = << >>
    /\ selection = << >>

\* score(sA, sB)
Score ==
    /\ lastScore' = << Aligner_score(aligner, sA, sB) >>
    /\ aligner' = [aligner EXCEPT !.algorithm = get_algorithm(aligner)]
    /\ UNCHANGED << sA, sB, paths, alignScore, returned, stopped, error,
                    lenResult, wasReset, again, candidates, selection >>

\* align(sA, sB); the model follows the one generator of the first call
Align ==
    LET Returned(r) ==
            /\ paths' = r.paths
            /\ alignScore' = << r.score >>
    IN  /\ paths = NoPaths
        /\ \E junk \in Residue :
               Returned(Aligner_align(aligner, sA, sB, junk))
        /\ aligner' = [aligner EXCEPT !.algorithm = get_algorithm(aligner)]
        /\ UNCHANGED << sA, sB, lastScore, returned, stopped, error,
                        lenResult, wasReset, again, candidates, selection >>

\* next(paths)
NextPath ==
    LET Returned(r) ==
            /\ paths' = r.paths
            /\ returned' = IF r.result # NULL
                           THEN Append(returned, r.result) ELSE returned
            /\ stopped' = (stopped \/ (r.result = NULL /\ r.error = ""))
            /\ error' = IF r.error # "" THEN r.error ELSE error
    IN  /\ paths # NoPaths
        /\ again' = (again \/ stopped)
        /\ Returned(PathGenerator_next(paths))
        /\ UNCHANGED << aligner, sA, sB, lastScore, alignScore, lenResult,
                        wasReset, candidates, selection >>

\* paths.reset()
Reset ==
    /\ paths # NoPaths
    /\ paths' = PathGenerator_reset(paths)
    /\ returned' = << >>
    /\ stopped' = FALSE
    /\ error' = ""
    /\ wasReset' = TRUE
    /\ again' = FALSE
    /\ UNCHANGED << aligner, sA, sB, lastScore, alignScore, lenResult,
                    candidates, selection >>

\* len(paths)
Length ==
    LET Returned(n) ==
            /\ lenResult' = << n >>
            /\ paths' = [paths EXCEPT !.length = n]
    IN  /\ paths # NoPaths
        /\ Returned(PathGenerator_length(paths))
        /\ UNCHANGED << aligner, sA, sB, lastScore, alignScore, returned,
                        stopped, error, wasReset, again, candidates,
                        selection >>

Next == Score \/ Align \/ NextPath \/ Reset \/ Length

Spec == Init /\ [][Next]_vars

(* ------------- the SELECT_TRACE macros on their own -------------------- *)
\* the scores of the candidates and the tolerances the macros are given
CandidateScores == {-4, -2, 0, 2, 4}
Tolerances == {0, 1, 2, 3}

InitSelect ==
    /\ candidates \in [score1 : CandidateScores, score2 : CandidateScores,
                       score3 : CandidateScores, epsilon : Tolerances]
    /\ selection = << >>
    /\ aligner = Aligner_init(2, 0)
    /\ sA = << >>
    /\ sB = << >>
    /\ paths = NoPaths
    /\ lastScore = << >>
    /\ alignScore = << >>
    /\ returned = << >>
    /\ stopped = FALSE
    /\ error = ""
    /\ lenResult = << >>
    /\ wasReset = FALSE
    /\ again = FALSE

\* the candidates (1, 2, 3) whose bit is set in trace
Recorded(trace, bit1, bit2, bit3) ==
    { k \in 1..3 : Has(trace, IF k = 1 THEN bit1
                              ELSE IF k = 2 THEN bit2 ELSE bit3) }

\* SELECT_TRACE_NEEDLEMAN_WUNSCH on diagonal, horizontal, vertical
SelectNeedlemanWunsch ==
    LET Chosen(sel) ==
            selection' = [macro |-> "SELECT_TRACE_NEEDLEMAN_WUNSCH",
                          score |-> sel.score,
                          recorded |-> Recorded(sel.trace, DIAGONAL,
                                                HORIZONTAL, VERTICAL)]
    IN  /\ selection = << >>
        /\ Chosen(SELECT_TRACE_NEEDLEMAN_WUNSCH(candidates.score1,
               candidates.score2, candidates.score3, candidates.epsilon))
        /\ UNCHANGED << aligner, sA, sB, paths, lastScore, alignScore,
                        returned, stopped, error, lenResult, wasReset, again,
                        candidates >>

\* SELECT_TRACE_GOTOH_GLOBAL_GAP / _ALIGN on the M, Ix and Iy candidates
SelectGotoh ==
    LET Chosen(sel) ==
            selection' = [macro |-> "SELECT_TRACE_GOTOH",
                          score |-> sel.score,
                          recorded |-> Recorded(sel.trace, M_MATRIX,
                                                Ix_MATRIX, Iy_MATRIX)]
    IN  /\ selection = << >>
        /\ Chosen(SELECT_TRACE_GOTOH(candidates.score1, candidates.score2,
                                     candidates.score3, candidates.epsilon))
        /\ UNCHANGED << aligner, sA, sB, paths, lastScore, alignScore,
                        returned, stopped, error, lenResult, wasReset, again,
                        candidates >>

\* SELECT_TRACE_WATERMAN_SMITH_BEYER_GAP on the two candidates of gap
\* length 1 and then on the first candidate of gap length 2
SelectGap ==
    LET Chosen(st) ==
            selection' = [macro |-> "SELECT_TRACE_WATERMAN_SMITH_BEYER_GAP",
                          score |-> st.score,
                          recorded |->
                              { k \in 1..3 :
                                  \/ k = 1 /\ 1 \in Range(st.gapM)
                                  \/ k = 2 /\ 1 \in Range(st.gapXY)
                                  \/ k = 3 /\ 2 \in Range(st.gapM) }]
        Third(st) ==
            Chosen(wsb_gap_step(st, candidates.score3, 2, "gapM",
                                candidates.epsilon))
        Second(st) ==
            Third(wsb_gap_step(st, candidates.score2, 1, "gapXY",
                               candidates.epsilon))
    IN  /\ selection = << >>
        /\ Second(wsb_gap_step(NoGap, candidates.score1, 1, "gapM",
                               candidates.epsilon))
        /\ UNCHANGED << aligner, sA, sB, paths, lastScore, alignScore,
                        returned, stopped, error, lenResult, wasReset, again,
                        candidates >>

NextSelect == SelectNeedlemanWunsch \/ SelectGotoh \/ SelectGap

SpecSelect == InitSelect /\ [][NextSelect]_vars

(* ------------- the gap setters and the choice of algorithm ------------- *)
\* the numbers and the callables assigned to the gap attributes
GapScores == {0, -2}
GapCallables == {"linear"}

InitConfigure ==
    /\ aligner = Aligner_init(2, 0)
    /\ sA = << 0 >>
    /\ sB = << 0 >>
    /\ paths = NoPaths
    /\ lastScore = << >>
    /\ alignScore = << >>
    /\ returned = << >>
    /\ stopped = FALSE
    /\ error = ""
    /\ lenResult = << >>
    /\ wasReset = FALSE
    /\ again = FALSE
    /\ candidates = << >>
    /\ selection = << >>

\* aligner.<setter> = score
SetGapScore ==
    /\ \E setter \in DOMAIN GapScoreSetters : \E score \in GapScores :
           aligner' = Aligner_set_gap(aligner, setter, score)
    /\ UNCHANGED << sA, sB, paths, lastScore, alignScore, returned, stopped,
                    error, lenResult, wasReset, again, candidates,
                    selection >>

\* aligner.<setter> = function
SetGapFunction ==
    /\ \E setter \in DOMAIN GapFunctionSetters :
           \E function \in GapCallables :
               aligner' = Aligner_set_gap_function(aligner, setter, function)
    /\ UNCHANGED << sA, sB, paths, lastScore, alignScore, returned, stopped,
                    error, lenResult, wasReset, again, candidates,
                    selection >>

NextConfigure == SetGapScore \/ SetGapFunction \/ Score

SpecConfigure == InitConfigure /\ [][NextConfigure]_vars

(* --------------- the setters of match and mismatch --------------------- *)
\* the numbers given as match and mismatch scores
SubstitutionScores == {-2, 0, 2, 4}

InitSubstitution ==
    /\ \E match \in SubstitutionScores : \E mismatch \in SubstitutionScores :
           aligner = Aligner_init(match, mismatch)
    /\ sA \in [1..1 -> Letters]
    /\ sB \in [1..1 -> Letters]
    /\ paths = NoPaths
    /\ lastScore = << >>
    /\ alignScore = << >>
    /\ returned = << >>
    /\ stopped = FALSE
    /\ error = ""
    /\ lenResult = << >>
    /\ wasReset = FALSE
    /\ again = FALSE
    /\ candidates = << >>
    /\ selection = << >>

\* aligner.match_score = match
SetMatchScore ==
    /\ \E match \in SubstitutionScores :
           aligner' = Aligner_set_match_score(aligner, match)
    /\ UNCHANGED << sA, sB, paths, lastScore, alignScore, returned, stopped,
                    error, lenResult, wasReset, again, candidates,
                    selection >>

\* aligner.mismatch_score = mismatch
SetMismatchScore ==
    /\ \E mismatch \in SubstitutionScores :
           aligner' = Aligner_set_mismatch_score(aligner, mismatch)
    /\ UNCHANGED << sA, sB, paths, lastScore, alignScore, returned, stopped,
                    error, lenResult, wasReset, again, candidates,
                    selection >>

NextSubstitution == SetMatchScore \/ SetMismatchScore \/ Score

SpecSubstitution == InitSubstitution /\ [][NextSubstitution]_vars

(* ------------------ the substitution matrix setter --------------------- *)
\* the dictionaries assigned to substitution_matrix: a full matrix over
\* 'A' and 'C', one pair of different letters, one pair of equal letters
SubstitutionMatrices ==
    { (<< 0, 0 >> :> 6) @@ (<< 0, 2 >> :> -4)
          @@ (<< 2, 0 >> :> -4) @@ (<< 2, 2 >> :> 6),
      (<< 0, 2 >> :> -4),
      (<< 0, 0 >> :> 6) }

\* aligner.substitution_matrix = values
SetSubstitutionMatrix ==
    /\ \E values \in SubstitutionMatrices :
           aligner' = Aligner_set_substitution_matrix(aligner, values)
    /\ UNCHANGED << sA, sB, paths, lastScore, alignScore, returned, stopped,
                    error, lenResult, wasReset, again, candidates,
                    selection >>

NextMatrix ==
    SetMatchScore \/ SetMismatchScore \/ SetSubstitutionMatrix \/ Score

SpecMatrix == InitSubstitution /\ [][NextMatrix]_vars

(* ------------------- the scenarios of the tests ------------------------ *)
\* scores are kept in half units: 2 stands for a score of 1
\*   - N letters 'A' against themselves, match 1, mismatch -1, every gap
\*     score -10, global;
\*   - GAATTC against GATTA, match 1, mismatch 0, every gap score -1, global;
\*   - the gap function gap(i, l) = -l on target and query, global, on
\*     every pair of sequences and on AAA against AAAA
Scenarios ==
    { [aligner |-> Aligner_set_gap([Aligner_init(2, -2) EXCEPT
                                      !.mode = "Global"], "gap_score", -20),
       sA |-> [k \in 1..n |-> 0], sB |-> [k \in 1..n |-> 0]] :
        n \in 1..MaxRepeat }
    \cup
    { [aligner |-> Aligner_set_gap([Aligner_init(2, 0) EXCEPT
                                      !.mode = "Global"], "gap_score", -2),
       sA |-> << 6, 0, 0, 19, 19, 2 >>, sB |-> << 6, 0, 19, 19, 0 >>] }
    \cup
    { [aligner |-> Aligner_set_gap_function(
                       [Aligner_init(2, mismatch) EXCEPT !.mode = "Global"],
                       "gap_score", "linear"),
       sA |-> pair[1], sB |-> pair[2]] :
        mismatch \in {-2, 0},
        pair \in (Strings \X Strings)
                   \cup { << << 0, 0, 0 >>, << 0, 0, 0, 0 >> >> } }

InitScenario ==
    /\ \E scenario \in Scenarios :
           /\ aligner = scenario.aligner
           /\ sA = scenario.sA
           /\ sB = scenario.sB
    /\ paths = NoPaths
    /\ lastScore = << >>
    /\ alignScore = << >>
    /\ returned = << >>
    /\ stopped = FALSE
    /\ error = ""
    /\ lenResult = << >>
    /\ wasReset = FALSE
    /\ again = FALSE
    /\ candidates = << >>
    /\ selection = << >>

SpecScenario == InitScenario /\ [][Next]_vars

(* ----------------------- reading the results -------------------------- *)
\* the paths a generator returns, in order, until next() returns NULL
RECURSIVE Exhaust(_, _)
Exhaust(self, acc) ==
    LET Returned(r) ==
            IF r.result = NULL THEN acc
            ELSE Exhaust(r.paths, Append(acc, r.result))
    IN  Returned(PathGenerator_next(self))

\* what a generator freshly built by align(sA, sB) returns
FreshPaths(junk) == Exhaust(Aligner_align(aligner, sA, sB, junk).paths, << >>)

\* the score of the n letter pairs aligned diagonally from (i, j)
RECURSIVE SubstitutionScore(_, _, _, _, _, _)
SubstitutionScore(self, a, b, i, j, n) ==
    IF n = 0 THEN 0
    ELSE self.substitution_matrix[CHARINDEX(a[i + 1])][CHARINDEX(b[j + 1])]
         + SubstitutionScore(self, a, b, i + 1, j + 1, n - 1)

\* the score of a gap of n letters in the target, in row i of nA: the gap
\* function if one is installed, else open + (n - 1) * extend with the
\* left scores before the first letter, the right scores after the last
\* one (global mode) and the internal scores elsewhere
TargetGapScore(self, nA, i, n) ==
    IF get_algorithm(self) = "WatermanSmithBeyer"
    THEN call_target_gap_function(self, i, n)
    ELSE IF self.mode = "Global" /\ i = 0
    THEN self.target_left_open_gap_score
         + (n - 1) * self.target_left_extend_gap_score
    ELSE IF self.mode = "Global" /\ i = nA
    THEN self.target_right_open_gap_score
         + (n - 1) * self.target_right_extend_gap_score
    ELSE self.target_open_gap_score + (n - 1) * self.target_extend_gap_score

\* the score of a gap of n letters in the query, in column j of nB
QueryGapScore(self, nB, j, n) ==
    IF get_algorithm(self) = "WatermanSmithBeyer"
    THEN call_query_gap_function(self, j, n)
    ELSE IF self.mode = "Global" /\ j = 0
    THEN self.query_left_open_gap_score
         + (n - 1) * self.query_left_extend_gap_score
    ELSE IF self.mode = "Global" /\ j = nB
    THEN self.query_right_open_gap_score
         + (n - 1) * self.query_right_extend_gap_score
    ELSE self.query_open_gap_score + (n - 1) * self.query_extend_gap_score

\* the score of the segment from corner p to corner q
SegmentScore(self, a, b, p, q) ==
    IF q[1] > p[1] /\ q[2] > p[2]
    THEN SubstitutionScore(self, a, b, p[1], p[2], q[1] - p[1])
    ELSE IF q[2] > p[2]
    THEN TargetGapScore(self, Len(a), p[1], q[2] - p[2])
    ELSE QueryGapScore(self, Len(b), p[2], q[1] - p[1])

\* a path scored from scratch: substitution scores plus gap scores
RECURSIVE Rescore(_, _, _, _)
Rescore(self, a, b, path) ==
    IF Len(path) < 2 THEN 0
    ELSE SegmentScore(self, a, b, path[1], path[2])
         + Rescore(self, a, b, Tail(path))

(* --------------------- all global alignments --------------------------- *)
\* every walk of unit steps (right, down, diagonal) from cell (i, j) to
\* cell (nA, nB), as the sequence of the cells visited
RECURSIVE StepWalks(_, _, _, _)
StepWalks(i, j, nA, nB) ==
    LET Prefix(ws) == { << << i, j >> >> \o w : w \in ws }
    IN  IF i = nA /\ j = nB THEN { << << i, j >> >> }
        ELSE Prefix((IF j < nB THEN StepWalks(i, j + 1, nA, nB) ELSE {})
                    \cup (IF i < nA THEN StepWalks(i + 1, j, nA, nB) ELSE {})
                    \cup (IF i < nA /\ j < nB
                          THEN StepWalks(i + 1, j + 1, nA, nB) ELSE {}))

\* the direction of the segment from p to q
Direction(p, q) ==
    << IF q[1] > p[1] THEN 1 ELSE 0, IF q[2] > p[2] THEN 1 ELSE 0 >>

\* a walk reduced to the cells where it starts, turns and ends
RECURSIVE Corners(_)
Corners(w) ==
    IF Len(w) < 3 THEN w
    ELSE IF Direction(w[1], w[2]) = Direction(w[2], w[3])
    THEN Corners(<< w[1] >> \o SubSeq(w, 3, Len(w)))
    ELSE << w[1] >> \o Corners(Tail(w))

\* every global alignment of nA letters with nB letters, as a path
AllGlobalAlignments(nA, nB) == { Corners(w) : w \in StepWalks(0, 0, nA, nB) }

\* the largest element of a non-empty set of integers
SetMax(S) == CHOOSE x \in S : \A y \in S : y <= x

\* the largest score of a global alignment of a with b
Optimum(self, a, b) ==
    SetMax({ Rescore(self, a, b, p) : p \in AllGlobalAlignments(Len(a), Len(b)) })

\* the global alignments of a with b that have the largest score
OptimalAlignments(self, a, b) ==
    LET Best(all, best) == { p \in all : Rescore(self, a, b, p) = best }
    IN  Best(AllGlobalAlignments(Len(a), Len(b)), Optimum(self, a, b))

(* ------------------- the walks of a trace table ------------------------ *)
\* A node << i, j, m >> is cell (i, j) in state m (always M_MATRIX for
\* the one-state tables of Needleman-Wunsch and Smith-Waterman).  Preds
\* reads from the trace table the nodes a walk through n may come from;
\* a local walk leaves its ENDPOINT cell diagonally.
Preds(self, n, root) ==
    LET i == n[1]
        j == n[2]
        m == n[3]
        local == self.mode = "Local"
        States(t, a, b) ==
            { << a, b, s >> : s \in { x \in {M_MATRIX, Ix_MATRIX, Iy_MATRIX} :
                                         Has(t, x) } }
        Cells(t) ==
            { << i, j - 1, M_MATRIX >> :
                  x \in { y \in {1} : Has(t, HORIZONTAL) /\ ~(local /\ root) } }
            \cup { << i - 1, j, M_MATRIX >> :
                  x \in { y \in {1} : Has(t, VERTICAL) /\ ~(local /\ root) } }
            \cup { << i - 1, j - 1, M_MATRIX >> :
                  x \in { y \in {1} : Has(t, DIAGONAL) } }
        Up(list, s) == { << i - list[k], j, s >> : k \in 1..Len(list) }
        Left(list, s) == { << i, j - list[k], s >> : k \in 1..Len(list) }
        Gaps(g) ==
            IF m = Ix_MATRIX
            THEN Up(g.MIx, M_MATRIX) \cup Up(g.IyIx, Iy_MATRIX)
            ELSE Left(g.MIy, M_MATRIX) \cup Left(g.IxIy, Ix_MATRIX)
    IN  IF self.algorithm = "NeedlemanWunschSmithWaterman"
        THEN Cells(self.M[i][j].trace)
        ELSE IF m = M_MATRIX THEN States(self.M[i][j].trace, i - 1, j - 1)
        ELSE IF self.algorithm = "WatermanSmithBeyer"
        THEN Gaps(self.gaps[i][j])
        ELSE IF m = Ix_MATRIX THEN States(self.gaps[i][j].Ix, i - 1, j)
        ELSE States(self.gaps[i][j].Iy, i, j - 1)

\* where a walk starts: cell (0, 0) of a global table, a STARTPOINT cell
\* of a local one
IsLeaf(self, n) ==
    IF self.mode = "Global" THEN n[1] = 0 /\ n[2] = 0
    ELSE n[3] = M_MATRIX /\ Has(self.M[n[1]][n[2]].trace, STARTPOINT)

\* where a walk ends: the states of cell (nA, nB) that have a trace in a
\* global table, the ENDPOINT cells of a local one
Roots(self) ==
    LET nA == self.nA
        nB == self.nB
        g == self.gaps[nA][nB]
        Final(m) ==
            IF m = M_MATRIX THEN self.M[nA][nB].trace # 0
            ELSE IF self.algorithm = "Gotoh"
            THEN StateTrace(self, nA, nB, m) # 0
            ELSE IF m = Ix_MATRIX THEN g.MIx # << >> \/ g.IyIx # << >>
            ELSE g.MIy # << >> \/ g.IxIy # << >>
    IN  IF self.mode = "Local"
        THEN { << i, j, M_MATRIX >> :
                 << i, j >> \in { c \in (0..nA) \X (0..nB) :
                                    Has(self.M[c[1]][c[2]].trace, ENDPOINT) } }
        ELSE IF self.algorithm = "NeedlemanWunschSmithWaterman"
        THEN { << nA, nB, M_MATRIX >> }
        ELSE { << nA, nB, m >> :
                 m \in { x \in {M_MATRIX, Ix_MATRIX, Iy_MATRIX} : Final(x) } }

\* the walks from a leaf to node n, as the sequences of cells visited
RECURSIVE WalksTo(_, _, _)
WalksTo(self, n, root) ==
    LET Extend(ws) == { Append(w, << n[1], n[2] >>) : w \in ws }
    IN  IF IsLeaf(self, n) THEN { << << n[1], n[2] >> >> }
        ELSE Extend(UNION { WalksTo(self, p, FALSE) :
                              p \in Preds(self, n, root) })

\* the root-to-leaf walks of a trace table, written as paths
Walks(self) ==
    { Corners(w) : w \in UNION { WalksTo(self, r, TRUE) : r \in Roots(self) } }

\* a sequence without repeated elements
NoDuplicates(seq) == Cardinality(Range(seq)) = Len(seq)

(* ----------------- the depth-first order of the walks ------------------- *)
\* the nodes a walk through n may come from, in the order of exploration:
\* HORIZONTAL before VERTICAL before DIAGONAL in a one-state table; the
\* states M, Ix, Iy in that order in a Gotoh table; the gaps that start
\* in M before those that start in the other gap state, each list in the
\* order stored, in a Waterman-Smith-Beyer table
OrderedPreds(self, n, root) ==
    LET i == n[1]
        j == n[2]
        m == n[3]
        local == self.mode = "Local"
        If(cond, node) == IF cond THEN << node >> ELSE << >>
        States(t, a, b) ==
            If(Has(t, M_MATRIX), << a, b, M_MATRIX >>)
            \o If(Has(t, Ix_MATRIX), << a, b, Ix_MATRIX >>)
            \o If(Has(t, Iy_MATRIX), << a, b, Iy_MATRIX >>)
        Cells(t) ==
            If(Has(t, HORIZONTAL) /\ ~(local /\ root),
               << i, j - 1, M_MATRIX >>)
            \o If(Has(t, VERTICAL) /\ ~(local /\ root),
                  << i - 1, j, M_MATRIX >>)
            \o If(Has(t, DIAGONAL), << i - 1, j - 1, M_MATRIX >>)
        Up(list, st) == [k \in 1..Len(list) |-> << i - list[k], j, st >>]
        Left(list, st) == [k \in 1..Len(list) |-> << i, j - list[k], st >>]
        Gaps(g) ==
            IF m = Ix_MATRIX
            THEN Up(g.MIx, M_MATRIX) \o Up(g.IyIx, Iy_MATRIX)
            ELSE Left(g.MIy, M_MATRIX) \o Left(g.IxIy, Ix_MATRIX)
    IN  IF self.algorithm = "NeedlemanWunschSmithWaterman"
        THEN Cells(self.M[i][j].trace)
        ELSE IF m = M_MATRIX THEN States(self.M[i][j].trace, i - 1, j - 1)
        ELSE IF self.algorithm = "WatermanSmithBeyer"
        THEN Gaps(self.gaps[i][j])
        ELSE IF m = Ix_MATRIX THEN States(self.gaps[i][j].Ix, i - 1, j)
        ELSE States(self.gaps[i][j].Iy, i, j - 1)

\* the elements of a finite set of nodes in row-major order of the cell,
\* and M before Ix before Iy in one cell
RECURSIVE RowMajor(_)
RowMajor(S) ==
    LET Before(a, b) ==
            \/ a[1] < b[1]
            \/ a[1] = b[1] /\ a[2] < b[2]
            \/ a[1] = b[1] /\ a[2] = b[2] /\ a[3] <= b[3]
        Least(x) == << x >> \o RowMajor(S \ {x})
    IN  IF S = {} THEN << >>
        ELSE Least(CHOOSE x \in S : \A y \in S : Before(x, y))

\* the walks that end in one of nodes[k], nodes[k + 1], ..., depth first
RECURSIVE DepthFirst(_, _, _, _)
DepthFirst(self, nodes, k, root) ==
    LET Cell(n) == << n[1], n[2] >>
        Extend(ws, n) == [x \in 1..Len(ws) |-> Append(ws[x], Cell(n))]
        Through(n) ==
            IF IsLeaf(self, n) THEN << << Cell(n) >> >>
            ELSE Extend(DepthFirst(self, OrderedPreds(self, n, root), 1,
                                   FALSE), n)
    IN  IF k > Len(nodes) THEN << >>
        ELSE Through(nodes[k]) \o DepthFirst(self, nodes, k + 1, root)

\* the root-to-leaf walks of a trace table in depth-first order, as paths
DepthFirstOrder(self) ==
    LET Paths(ws) == [k \in 1..Len(ws) |-> Corners(ws[k])]
    IN  Paths(DepthFirst(self, RowMajor(Roots(self)), 1, TRUE))

(* ------------------------------ claims --------------------------------- *)
\* next() has returned NULL, without an exception, on a generator
Exhausted == paths # NoPaths /\ stopped /\ error = ""

\* seq is an initial part of full
IsPrefix(seq, full) ==
    Len(seq) <= Len(full) /\ seq = SubSeq(full, 1, Len(seq))

\* C1: the value score(sA, sB) returned equals the score, computed from
\* the substitution scores and the gap scores of each region, of every
\* path next() returned for align(sA, sB).
C1_ScoreEqualsRescoredPaths ==
    lastScore # << >> =>
        \A k \in 1..Len(returned) :
            Rescore(aligner, sA, sB, returned[k]) = lastScore[1]

\* C2: when the number of paths a fresh generator returns before the
\* terminal sentinel fits the native signed integer, len() is that number.
C2_LengthIsNumberReturned ==
    (Exhausted /\ ~wasReset /\ lenResult # << >>
     /\ Len(returned) <= PY_SSIZE_T_MAX)
        => lenResult[1] = Len(returned)

\* C3: a fresh generator called until the terminal sentinel has returned
\* every root-to-leaf walk of its trace table, and each of them once.
C3_ExhaustionReturnsEveryWalkOnce ==
    (Exhausted /\ ~wasReset)
        => (NoDuplicates(returned) /\ Range(returned) = Walks(paths))

\* C4: after reset(), whenever it was called, the paths next() returns are
\* those a freshly built generator returns, in the same order.
C4_ResetRestartsTheSequence ==
    LET Same(fresh) ==
            /\ IsPrefix(returned, fresh)
            /\ stopped => returned = fresh
    IN  (paths # NoPaths /\ wasReset /\ error = "")
            => \E junk \in Residue : Same(FreshPaths(junk))

\* C5: Needleman-Wunsch global with a tolerance below the smallest
\* non-zero difference between two scores (every score of the model is a
\* multiple of match): the paths enumerated are exactly the global
\* alignments of the largest score, and align() returned that score.
C5_FineToleranceEnumeratesTheOptimalAlignments ==
    (Exhausted /\ ~wasReset /\ paths.mode = "Global"
     /\ paths.algorithm = "NeedlemanWunschSmithWaterman"
     /\ aligner.epsilon < aligner.match)
        => (/\ Range(returned) = OptimalAlignments(aligner, sA, sB)
            /\ alignScore[1] = Optimum(aligner, sA, sB))

\* C6: Needleman-Wunsch global: score() returns the largest score of a
\* global alignment, gaps before the first letter charged the left extend
\* score, gaps after the last letter the right one, the others the
\* internal one.
C6_ScoreIsTheOptimum ==
    (lastScore # << >> /\ aligner.mode = "Global"
     /\ get_algorithm(aligner) = "NeedlemanWunschSmithWaterman")
        => lastScore[1] = Optimum(aligner, sA, sB)

\* the k-th candidate and the largest candidate of a selection
Candidate(k) ==
    IF k = 1 THEN candidates.score1
    ELSE IF k = 2 THEN candidates.score2 ELSE candidates.score3
WithinTolerance(k) ==
    Max3(candidates.score1, candidates.score2, candidates.score3)
        - Candidate(k) <= candidates.epsilon

\* C7: in each traceback recurrence, two candidates that are both within
\* epsilon of the largest candidate are both recorded, in whatever order
\* the candidates are compared.
C7_CandidatesWithinToleranceAreBothRecorded ==
    selection # << >> =>
        \A a, b \in 1..3 :
            (a # b /\ WithinTolerance(a) /\ WithinTolerance(b))
                => {a, b} \subseteq selection.recorded

\* the trace of the cell at a coordinate of a path
TraceAt(c) == paths.M[c[1]][c[2]].trace

\* C8: in the local variants the first coordinate of every returned path
\* is a cell whose trace is STARTPOINT and the last coordinate is a cell
\* whose trace has the ENDPOINT bit.
C8_LocalPathsRunFromStartpointToEndpoint ==
    (paths # NoPaths /\ paths.mode = "Local") =>
        \A k \in 1..Len(returned) :
            /\ TraceAt(returned[k][1]) = STARTPOINT
            /\ Has(TraceAt(returned[k][Len(returned[k])]), ENDPOINT)

\* C8 happens: a local Gotoh generator has returned a path with a gap
\* between two aligned blocks
C8_Witness ==
    /\ paths # NoPaths
    /\ paths.mode = "Local"
    /\ paths.algorithm = "Gotoh"
    /\ \E k \in 1..Len(returned) : Len(returned[k]) >= 4

\* q follows p by a positive multiple of (0,1), (1,0) or (1,1)
IsSegment(p, q) ==
    \/ q[1] = p[1] /\ q[2] > p[2]
    \/ q[1] > p[1] /\ q[2] = p[2]
    \/ q[1] > p[1] /\ q[2] - p[2] = q[1] - p[1]

\* C9: in the global variants every returned path starts at (0, 0), ends
\* at (nA, nB), each coordinate follows the one before by a positive
\* multiple of exactly one of (0,1), (1,0), (1,1), and no two consecutive
\* segments have the same direction.
C9_GlobalPathsAreCornerPaths ==
    LET Shape(p) ==
            /\ p[1] = << 0, 0 >>
            /\ p[Len(p)] = << Len(sA), Len(sB) >>
            /\ \A k \in 1..(Len(p) - 1) : IsSegment(p[k], p[k + 1])
            /\ \A n \in 1..(Len(p) - 2) :
                   Direction(p[n], p[n + 1]) # Direction(p[n + 1], p[n + 2])
    IN  (paths # NoPaths /\ paths.mode = "Global") =>
            \A k \in 1..Len(returned) : Shape(returned[k])

\* C9 happens: a global generator has returned a path of three segments,
\* one of them longer than one step
C9_Witness ==
    /\ paths # NoPaths
    /\ paths.mode = "Global"
    /\ \E k \in 1..Len(returned) :
           /\ Len(returned[k]) = 4
           /\ \E n \in 1..3 :
                  returned[k][n + 1][1] + returned[k][n + 1][2]
                      > returned[k][n][1] + returned[k][n][2] + 2

\* C10: len() never returns a number >= 0 other than the number of walks
\* of the trace table, and it returns the overflow sentinel whenever that
\* number does not fit the native signed integer.
C10_LengthIsExactOrOverflow ==
    LET Right(n, walks) ==
            /\ n >= 0 => n = walks
            /\ walks > PY_SSIZE_T_MAX => n = OVERFLOW_ERROR
    IN  lenResult # << >> => Right(lenResult[1], Cardinality(Walks(paths)))

\* C11: once next() has returned the terminal sentinel (NULL without an
\* exception), every later next() call returns the sentinel as well, until
\* reset() is called: while the generator stays stopped no call adds a path
\* to those returned or raises an exception
C11_SentinelIsSticky ==
    [][(stopped /\ stopped') => (returned' = returned /\ error' = error)]_vars

\* next() was called again on a generator that had returned one path or
\* more and then the sentinel
C11_Witness ==
    /\ paths # NoPaths
    /\ stopped
    /\ again
    /\ Len(returned) >= 1

\* the algorithm the gap parameters call for: Waterman-Smith-Beyer when a
\* gap function is present, Needleman-Wunsch/Smith-Waterman when the open
\* and the extend score agree for target and for query in the internal,
\* the left and the right region, Gotoh otherwise
AlgorithmOf(self) ==
    LET OpenIsExtend(seq, region) ==
            self[seq \o region \o "open_gap_score"]
                = self[seq \o region \o "extend_gap_score"]
    IN  IF self.target_gap_function # "NULL"
           \/ self.query_gap_function # "NULL"
        THEN "WatermanSmithBeyer"
        ELSE IF \A seq \in {"target_", "query_"} :
                    \A region \in {"", "left_", "right_"} :
                        OpenIsExtend(seq, region)
        THEN "NeedlemanWunschSmithWaterman"
        ELSE "Gotoh"

\* C12: after any sequence of gap-score and gap-function assignments the
\* algorithm score() and align() dispatch to is the one the current gap
\* parameters call for, and an algorithm memoized by an earlier call is
\* never stale
C12_AlgorithmFollowsTheGapParameters ==
    /\ get_algorithm(aligner) = AlgorithmOf(aligner)
    /\ Aligner_align(aligner, sA, sB, 0).paths.algorithm
           = AlgorithmOf(aligner)
    /\ aligner.algorithm \in {"Unknown", AlgorithmOf(aligner)}

\* score() has memoized an algorithm after the gap parameters were changed
\* to call for Gotoh
C12_Witness ==
    /\ lastScore # << >>
    /\ aligner.algorithm = "Gotoh"
    /\ aligner.target_left_open_gap_score
           # aligner.target_left_extend_gap_score
    /\ aligner.query_gap_function = "NULL"
    /\ aligner.target_gap_function = "NULL"

\* every gap score of the aligner is score and no gap function is present
EveryGapScoreIs(self, score) ==
    \A f \in GapScoreSetters.gap_score :
        self[f] = IF f \in {"target_gap_function", "query_gap_function"}
                  THEN "NULL" ELSE score

\* C13: with match 1, mismatch -1 and every gap score -10 in global mode
\* (2, -2 and -20 in half units), N letters 'A' aligned with themselves
\* score N from score() and from align(), len() is 1, the first next()
\* returns the one path and the second next() the terminal sentinel
C13_RepeatsAlignInOneWay ==
    (/\ aligner.mode = "Global"
     /\ aligner.match = 2 /\ aligner.mismatch = -2
     /\ EveryGapScoreIs(aligner, -20)
     /\ sA = sB /\ Range(sA) = {0})
    => /\ lastScore # << >> => lastScore[1] = 2 * Len(sA)
       /\ alignScore # << >> => alignScore[1] = 2 * Len(sA)
       /\ lenResult # << >> => lenResult[1] = 1
       /\ Len(returned) <= 1
       /\ stopped => returned = << << << 0, 0 >>, << Len(sA), Len(sA) >> >> >>
       /\ error = ""

\* three letters or more were scored, aligned and counted, and next() has
\* returned the path, the sentinel and the sentinel again
C13_Witness ==
    /\ EveryGapScoreIs(aligner, -20)
    /\ sA = sB /\ Range(sA) = {0} /\ Len(sA) >= 3
    /\ lastScore # << >> /\ alignScore # << >> /\ lenResult # << >>
    /\ Len(returned) = 1 /\ stopped /\ again

\* C14: the global score under the gap function gap(i, l) = -l on target
\* and query (Waterman-Smith-Beyer) is the global score of the same
\* aligner once every gap score is set to -1 (Needleman-Wunsch), for every
\* pair of sequences and for AAA against AAAA
C14_LinearGapFunctionScoresAsNeedlemanWunsch ==
    LET Same(self, other) ==
            /\ get_algorithm(self) = "WatermanSmithBeyer"
            /\ get_algorithm(other) = "NeedlemanWunschSmithWaterman"
            /\ other.substitution_matrix = self.substitution_matrix
            /\ lastScore[1] = Aligner_score(other, sA, sB)
    IN  (/\ aligner.mode = "Global"
         /\ aligner.target_gap_function = "linear"
         /\ aligner.query_gap_function = "linear"
         /\ lastScore # << >>)
        => Same(aligner, Aligner_set_gap(aligner, "gap_score", -2))

\* AAA was scored against AAAA under the gap function
C14_Witness ==
    /\ aligner.target_gap_function = "linear"
    /\ aligner.query_gap_function = "linear"
    /\ sA = << 0, 0, 0 >> /\ sB = << 0, 0, 0, 0 >>
    /\ lastScore # << >>

\* GAATTC against GATTA with match 1, mismatch 0 and every gap score -1
\* in global mode
ScenarioA ==
    /\ aligner.mode = "Global"
    /\ aligner.match = 2 /\ aligner.mismatch = 0
    /\ EveryGapScoreIs(aligner, -2)
    /\ sA = << 6, 0, 0, 19, 19, 2 >> /\ sB = << 6, 0, 19, 19, 0 >>

\* C15 as stated: GAATTC against GATTA scores 2 (4 in half units) from
\* score() and from align(), and there is at least one path
C15_ScenarioAScoresTwo ==
    ScenarioA
    => /\ lastScore # << >> => lastScore[1] = 4
       /\ alignScore # << >> => alignScore[1] = 4
       /\ (stopped /\ error = "") => Len(returned) >= 1

\* C15, amended: GAATTC against GATTA scores 3 (6 in half units) from
\* score() and from align(), which is the score of the best global
\* alignment, and there is at least one path
C15_ScenarioAScoresThree ==
    ScenarioA
    => /\ lastScore # << >> => lastScore[1] = 6
       /\ alignScore # << >> => alignScore[1] = 6
       /\ (lastScore # << >> /\ paths = NoPaths)
              => lastScore[1] = Optimum(aligner, sA, sB)
       /\ (stopped /\ error = "") => Len(returned) >= 1
       /\ error = ""

\* GAATTC and GATTA were scored and aligned and the paths were used up
C15_Witness ==
    /\ ScenarioA
    /\ lastScore # << >> /\ alignScore # << >>
    /\ stopped /\ Len(returned) >= 1

\* C16: while no substitution matrix is installed, after construction with
\* any (match, mismatch) and after any sequence of match_score and
\* mismatch_score assignments, the substitution score of the letter X
\* (index 23) against itself is 0; so is the score() of X against X
C16_XAgainstXScoresZero ==
    /\ aligner.substitution_matrix[23][23] = 0
    /\ (sA = << 23 >> /\ sB = << 23 >> /\ lastScore # << >>)
           => lastScore[1] = 0

\* X was scored against X after match and mismatch scores other than 0
\* were assigned (the row of X is cleared by the mismatch setter alone)
C16_Witness ==
    /\ sA = << 23 >> /\ sB = << 23 >> /\ lastScore # << >>
    /\ aligner.match # 0 /\ aligner.mismatch # 0
    /\ aligner.substitution_matrix[0][0] = aligner.match
    /\ aligner.substitution_matrix[0][2] = aligner.mismatch
    /\ aligner.substitution_matrix[23][0] = 0

\* C17: the paths successive next() calls return are the root-to-leaf
\* walks of the trace table in depth-first order, where at every cell the
\* HORIZONTAL predecessor is explored before the VERTICAL one and the
\* VERTICAL before the DIAGONAL one, and in the Gotoh and
\* Waterman-Smith-Beyer tables the predecessor states in the order M, Ix,
\* Iy: what was returned so far is an initial part of that order and, in
\* global mode, all of it once next() has returned the sentinel.  Two
\* generators built from the same inputs return the same sequence,
\* whatever the allocator left in the fields align() does not write.
C17_PathsComeInDepthFirstOrder ==
    LET InOrder(order) ==
            /\ IsPrefix(returned, order)
            /\ (stopped /\ paths.mode = "Global") => returned = order
    IN  /\ (paths # NoPaths /\ error = "" /\ (returned # << >> \/ stopped))
               => InOrder(DepthFirstOrder(paths))
        /\ paths = NoPaths => FreshPaths(0) = FreshPaths(DIAGONAL)

\* a Needleman-Wunsch global generator has returned three paths or more,
\* which leave the last cell in more than one direction, and the sentinel
C17_Witness ==
    /\ paths # NoPaths
    /\ paths.algorithm = "NeedlemanWunschSmithWaterman"
    /\ paths.mode = "Global"
    /\ stopped /\ error = ""
    /\ Len(returned) >= 3
    /\ Has(paths.M[paths.nA][paths.nB].trace, HORIZONTAL)
    /\ Has(paths.M[paths.nA][paths.nB].trace, DIAGONAL)

\* the last cell of a path
LastCell(path) == path[Len(path)]

\* cell p is not later than cell q in row-major order
NotLater(p, q) == p[1] < q[1] \/ (p[1] = q[1] /\ p[2] <= q[2])

\* C18: in local mode the last cells of the paths returned since align()
\* or reset() are ENDPOINT cells that never go back in row-major order,
\* and the paths that share a last cell are returned one after the other
C18_EndpointsComeInRowMajorOrder ==
    (paths # NoPaths /\ paths.mode = "Local")
    => /\ \A k \in 1..Len(returned) :
              Has(TraceAt(LastCell(returned[k])), ENDPOINT)
       /\ \A k \in 1..(Len(returned) - 1) :
              NotLater(LastCell(returned[k]), LastCell(returned[k + 1]))
       /\ \A k \in 1..Len(returned) : \A n \in k..Len(returned) :
              LastCell(returned[k]) = LastCell(returned[n])
              => \A x \in k..n :
                     LastCell(returned[x]) = LastCell(returned[k])

\* a local generator has returned two paths that end in one cell and then
\* a path that ends in a later cell
C18_Witness ==
    /\ paths # NoPaths /\ paths.mode = "Local"
    /\ Len(returned) >= 3
    /\ LastCell(returned[1]) = LastCell(returned[2])
    /\ LastCell(returned[2]) # LastCell(returned[3])

\* the stored cursor (iA, iB) of a generator
Cursor(self) == << self.iA, self.iB >>

\* the last cell of the path stored from the cursor
CursorEnd(self) == LastCell(create_path(self.M, self.iA, self.iB))

\* C19 as stated: between two reset() calls the cursor (iA, iB) after a
\* next() call is never earlier in row-major order than it was before
\* the call, that is after the previous next() call
C19_CursorNeverGoesBack ==
    [][NextPath => NotLater(Cursor(paths), Cursor(paths'))]_vars

\* the cursor (iA, iB) is the first cell of the path returned last, (0, 0)
\* in global mode and when no path was returned since align() or reset(),
\* and the path stored from the cursor is the path returned last
CursorIsAtTheStart ==
    LET Right(last) ==
            /\ Cursor(paths) = last[1]
            /\ ~stopped => create_path(paths.M, paths.iA, paths.iB) = last
    IN  (paths # NoPaths /\ error = "")
        => /\ (paths.mode = "Global" \/ returned = << >>)
                 => Cursor(paths) = << 0, 0 >>
           /\ returned # << >> => Right(returned[Len(returned)])

\* C19, amended: the cursor (iA, iB) is the first cell of the path
\* returned last, (0, 0) in global mode and when no path was returned
\* since align() or reset(); it is the last cell of the path stored from
\* the cursor, not the cursor, that a next() call never moves back in
\* row-major order
C19_CursorIsTheStartOfTheLastPath ==
    /\ []CursorIsAtTheStart
    /\ [][(NextPath /\ returned # << >> /\ returned' # returned)
             => NotLater(CursorEnd(paths), CursorEnd(paths'))]_vars

\* a local generator has returned a path that starts in a cell earlier in
\* row-major order than the cell the path returned before it starts in
C19_Witness ==
    /\ paths # NoPaths /\ paths.mode = "Local"
    /\ Len(returned) >= 2
    /\ Cursor(paths) = returned[Len(returned)][1]
    /\ ~NotLater(returned[Len(returned) - 1][1], returned[Len(returned)][1])

\* C20: a candidate p compared with the running best b is recorded as
\* tied with it exactly when |p - b| <= epsilon, both boundaries included,
\* displaces it exactly when p > b + epsilon and is discarded exactly when
\* p < b - epsilon; read off the second candidate against the first, when
\* the third one is below the tolerance of the best of the two
C20_TiesAreExactlyTheCandidatesWithinEpsilon ==
    LET b == Candidate(1)
        p == Candidate(2)
        epsilon == candidates.epsilon
        best == IF p > b + epsilon THEN p ELSE b
    IN  (selection # << >> /\ Candidate(3) < best - epsilon)
        => /\ ({1, 2} \subseteq selection.recorded)
                 <=> (p - b <= epsilon /\ b - p <= epsilon)
           /\ (selection.recorded = {2}) <=> (p > b + epsilon)
           /\ (selection.recorded = {1}) <=> (p < b - epsilon)

(* ------------------ gap scores by region (C21) ------------------------- *)
\* The Needleman-Wunsch recurrence written over the whole table, with the
\* extend score of each region looked up by name.  n.v names the gap
\* parameters of the vertical steps (i-1, j) -> (i, j), n.h those of the
\* horizontal steps (i, j-1) -> (i, j), and n.corner the edge whose
\* extend score fills the first cell of the last row.
RECURSIVE RegionScore(_, _, _, _, _, _)
RegionScore(self, a, b, n, i, j) ==
    LET nA == Len(a)
        nB == Len(b)
        Extend(side, edge) == self[side \o edge \o "extend_gap_score"]
        vgap == Extend(n.v, IF j = nB THEN "right_" ELSE "")
        hgap == Extend(n.h, IF i = nA THEN "right_" ELSE "")
    IN  IF i = 0 THEN j * Extend(n.h, "left_")
        ELSE IF j = 0
        THEN i * Extend(n.v, IF i = nA THEN n.corner ELSE "left_")
        ELSE Max3(RegionScore(self, a, b, n, i - 1, j - 1)
                    + self.substitution_matrix[CHARINDEX(a[i])][CHARINDEX(b[j])],
                  RegionScore(self, a, b, n, i - 1, j) + vgap,
                  RegionScore(self, a, b, n, i, j - 1) + hgap)

\* the trace of cell (i, j) that the recurrence of RegionScore selects
RegionTrace(self, a, b, n, i, j) ==
    LET Extend(side, edge) == self[side \o edge \o "extend_gap_score"]
    IN  SELECT_TRACE_NEEDLEMAN_WUNSCH(
            RegionScore(self, a, b, n, i - 1, j - 1)
              + self.substitution_matrix[CHARINDEX(a[i])][CHARINDEX(b[j])],
            RegionScore(self, a, b, n, i, j - 1)
              + Extend(n.h, IF i = Len(a) THEN "right_" ELSE ""),
            RegionScore(self, a, b, n, i - 1, j)
              + Extend(n.v, IF j = Len(b) THEN "right_" ELSE ""),
            self.epsilon).trace

\* score() and align() follow the recurrence with the region names n for
\* score() and m for align()
FollowsRegions(n, m) ==
    /\ lastScore # << >>
           => lastScore[1] = RegionScore(aligner, sA, sB, n, Len(sA), Len(sB))
    /\ alignScore # << >>
           => /\ alignScore[1]
                    = RegionScore(aligner, sA, sB, m, Len(sA), Len(sB))
              /\ \A i \in 1..Len(sA) : \A j \in 1..Len(sB) :
                     paths.M[i][j].trace
                         = RegionTrace(aligner, sA, sB, m, i, j)

\* Needleman-Wunsch in global mode with a tolerance below the smallest
\* difference between two scores, so that every cell holds its maximum
NeedlemanWunschGlobal ==
    /\ aligner.mode = "Global"
    /\ get_algorithm(aligner) = "NeedlemanWunschSmithWaterman"
    /\ aligner.epsilon < 2

Min(a, b) == IF a < b THEN a ELSE b

\* C22 as stated: a path next() returned has at most min(nA, nB) + 1
\* coordinate pairs
C22_CornersAtMostTheShorterLengthPlusOne ==
    \A k \in 1..Len(returned) :
        Len(returned[k]) <= Min(Len(sA), Len(sB)) + 1

\* C22, amended: a path next() returned has at least two coordinate pairs
\* and at most 1 + min(nA + nB, 2 * min(nA, nB) + 1): one more than its
\* segments, which are at most nA + nB unit steps and, the runs of one
\* gap direction being separated by steps that use up a letter of the
\* shorter sequence, at most 2 * min(nA, nB) + 1 runs
C22_CornersAtMostTwiceTheShorterLengthPlusTwo ==
    \A k \in 1..Len(returned) :
        /\ Len(returned[k]) >= 2
        /\ Len(returned[k])
               <= 1 + Min(Len(sA) + Len(sB), 2 * Min(Len(sA), Len(sB)) + 1)

\* a path with as many corners as the amended bound allows, more than
\* min(nA, nB) + 1, for sequences of different lengths
C22_Witness ==
    /\ Len(sA) # Len(sB)
    /\ Min(Len(sA), Len(sB)) >= 2
    /\ \E k \in 1..Len(returned) :
           /\ Len(returned[k]) > Min(Len(sA), Len(sB)) + 1
           /\ Len(returned[k])
                  = 1 + Min(Len(sA) + Len(sB), 2 * Min(Len(sA), Len(sB)) + 1)

(* ------------- recorded candidates and the tolerance (C23) ------------- *)
\* C23: every candidate a SELECT_TRACE macro records in the trace (or in
\* the gap-source bits, or in the gap-length lists) of a cell has a score
\* that differs from the largest candidate score of the cell by at most
\* epsilon
C23_RecordedCandidatesAreWithinEpsilonOfTheLargest ==
    selection # << >> =>
        \A k \in selection.recorded : WithinTolerance(k)

(* --------------- the reachability sweep (C24, C27) --------------------- *)
\* some walk along the trace from node n ends in a cell where walks start
RECURSIVE ReachesAStartpoint(_, _)
ReachesAStartpoint(self, n) ==
    \/ IsLeaf(self, n)
    \/ \E p \in Preds(self, n, FALSE) : ReachesAStartpoint(self, p)

\* the states a cell of the table has
StatesOf(self) ==
    IF self.algorithm = "NeedlemanWunschSmithWaterman" THEN {M_MATRIX}
    ELSE {M_MATRIX, Ix_MATRIX, Iy_MATRIX}

\* in a local table no node that does not reach a STARTPOINT has a
\* predecessor left or is an ENDPOINT
UnreachableCellsAreCleared ==
    \A i \in 0..paths.nA : \A j \in 0..paths.nB : \A m \in StatesOf(paths) :
        ~ReachesAStartpoint(paths, << i, j, m >>)
            => /\ Preds(paths, << i, j, m >>, FALSE) = {}
               /\ m = M_MATRIX => ~Has(paths.M[i][j].trace, ENDPOINT)

\* every ENDPOINT cell is the last coordinate of a path that was returned
EveryEndpointIsReturned ==
    \A r \in Roots(paths) :
        \E k \in 1..Len(returned) : LastCell(returned[k]) = << r[1], r[2] >>

\* C24: in a local table, after the reachability sweep, a cell from which
\* no walk along the trace reaches a STARTPOINT cell has no direction or
\* matrix bits and no ENDPOINT bit, and every cell that has the ENDPOINT
\* bit is the last cell of a path of a generator used up
C24_EndpointsAreReachableAndReturned ==
    (paths # NoPaths /\ paths.mode = "Local")
        => /\ UnreachableCellsAreCleared
           /\ (Exhausted /\ ~wasReset) => EveryEndpointIsReturned

(* ------------------ next() always answers (C25) ------------------------ *)
\* every gap score of the aligner and every value of its gap functions
\* on the gaps of the model is at most zero
NonPositiveGapScores ==
    /\ \A f \in GapScoreSetters.gap_score
               \ {"target_gap_function", "query_gap_function"} :
           aligner[f] <= 0
    /\ \A i \in 0..MaxLen : \A n \in 1..MaxLen :
           /\ call_target_gap_function(aligner, i, n) <= 0
           /\ call_query_gap_function(aligner, i, n) <= 0

\* C25: with gap scores that are not positive, every next() call, after
\* any sequence of next() and reset() calls, returns a path (of at least
\* two coordinates) or the terminal sentinel: no call sets the
\* RuntimeError of the "Unexpected trace" and "Unexpected path" branches.
\* (The loops of next() are the recursive operators of the model, which
\* are evaluated to the end in every state.)
C25_NextReturnsAPathOrTheSentinel ==
    [][(NextPath /\ NonPositiveGapScores)
          => /\ error' = ""
             /\ \/ /\ Len(returned') = Len(returned) + 1
                   /\ SubSeq(returned', 1, Len(returned)) = returned
                   /\ Len(returned'[Len(returned')]) >= 2
                   /\ ~stopped'
                \/ /\ returned' = returned
                   /\ stopped']_vars

\* a local Waterman-Smith-Beyer generator that was reset, has returned
\* two paths since and then the sentinel
C25_Witness ==
    /\ paths # NoPaths
    /\ paths.mode = "Local" /\ paths.algorithm = "WatermanSmithBeyer"
    /\ NonPositiveGapScores
    /\ wasReset /\ stopped /\ error = ""
    /\ Len(returned) >= 2

(* ---------------- what next(), reset(), len() write (C26) -------------- *)
\* a generator without its path fields, its cursor and its cached length
TraceTable(self) ==
    [f \in DOMAIN self \ {"M", "iA", "iB", "length"} |-> self[f]]
        @@ [M |-> [i \in 0..self.nA |-> [j \in 0..self.nB |->
                      self.M[i][j].trace]]]

\* C26: next(), reset() and len() change nothing of a generator but the
\* path fields of its cells, its cursor (iA, iB) and its cached length:
\* the trace bits, the gap-source bits of Gotoh and the gap-length lists
\* of Waterman-Smith-Beyer, the sizes, the mode and the algorithm stay
C26_OnlyPathCursorAndLengthChange ==
    [][(NextPath \/ Reset \/ Length)
          => TraceTable(paths') = TraceTable(paths)]_vars

\* a Waterman-Smith-Beyer generator with a gap-length list, after next(),
\* reset(), len() and next() again, with path fields changed
C26_Witness ==
    /\ paths # NoPaths
    /\ paths.algorithm = "WatermanSmithBeyer"
    /\ \E i \in 0..paths.nA : \E j \in 0..paths.nB :
           paths.gaps[i][j].MIx # << >>
    /\ wasReset /\ lenResult # << >> /\ Len(returned) >= 2
    /\ paths.length > 0
    /\ \E i \in 0..paths.nA : \E j \in 0..paths.nB :
           paths.M[i][j].path = VERTICAL

(* --------------- local paths have no loose ends (C27) ------------------ *)
\* the cells strictly between the corners p and q of a segment
Between(p, q) ==
    LET d == Direction(p, q)
        n == IF d[1] = 1 THEN q[1] - p[1] ELSE q[2] - p[2]
    IN  { << p[1] + k * d[1], p[2] + k * d[2] >> : k \in 1..(n - 1) }

\* the cells a path passes through in the M state before its last
\* coordinate: its first cell and the cells it reaches by a diagonal step
\* (in a one-state table every cell it reaches)
PassedInM(self, path) ==
    LET Reached(k) ==
            IF Direction(path[k], path[k + 1]) = << 1, 1 >>
               \/ self.algorithm = "NeedlemanWunschSmithWaterman"
            THEN Between(path[k], path[k + 1])
                 \cup (IF k + 1 < Len(path) THEN { path[k + 1] } ELSE {})
            ELSE {}
    IN  { path[1] } \cup UNION { Reached(k) : k \in 1..(Len(path) - 1) }

\* C27: with gap scores that are not positive, a path returned in local
\* mode begins and ends with a diagonal segment and passes, in the M
\* state, through no ENDPOINT cell other than its last coordinate
C27_LocalPathsHaveNoLooseEnds ==
    (paths # NoPaths /\ paths.mode = "Local" /\ NonPositiveGapScores)
        => \A k \in 1..Len(returned) :
               LET path == returned[k]
               IN  /\ Direction(path[1], path[2]) = << 1, 1 >>
                   /\ Direction(path[Len(path) - 1], path[Len(path)])
                          = << 1, 1 >>
                   /\ \A c \in PassedInM(paths, path) :
                          ~Has(TraceAt(c), ENDPOINT)

(* --------------- no local alignment at score 0 (C28) ------------------- *)
\* no letter of sA scores above 0 against a letter of sB: with gap scores
\* that are not positive no alignment scores above 0, and the maximum
\* local score is 0
NoPositivePair ==
    \A i \in 1..Len(sA) : \A j \in 1..Len(sB) :
        aligner.substitution_matrix[CHARINDEX(sA[i])][CHARINDEX(sB[j])] <= 0

FineTolerance == aligner.epsilon < 2

\* C29: with such a tolerance, in every variant, the score align()
\* returned is the score, computed from the substitution scores and the
\* gap scores, of every path its generator returns, before and after
\* reset()
C29_AlignScoreEqualsRescoredPaths ==
    (FineTolerance /\ alignScore # << >>)
        => \A k \in 1..Len(returned) :
               Rescore(aligner, sA, sB, returned[k]) = alignScore[1]

\* a Gotoh generator used up, with two paths or more that have gaps and a
\* score that is not 0, for gap scores that differ by region
C29_Witness ==
    /\ FineTolerance /\ alignScore # << >> /\ alignScore # << 0 >>
    /\ paths # NoPaths /\ paths.algorithm = "Gotoh"
    /\ aligner.target_left_open_gap_score # aligner.target_open_gap_score
    /\ stopped /\ Len(returned) >= 2
    /\ \A k \in 1..Len(returned) : Len(returned[k]) >= 3

(* ------------- match, mismatch and the matrix (C30) -------------------- *)
\* C30: while no substitution matrix is installed, so that match_score
\* and mismatch_score can be read, every substitution score of a letter
\* other than X against itself is match_score and every score of two
\* different letters other than X is mismatch_score, after any sequence
\* of match_score, mismatch_score and substitution_matrix assignments
C30_MatchAndMismatchDescribeTheMatrix ==
    aligner.letters = NoLetters
        => \A i \in Letters \ {23} : \A j \in Letters \ {23} :
               aligner.substitution_matrix[i][j]
                   = IF i = j THEN Aligner_get_match_score(aligner)
                     ELSE Aligner_get_mismatch_score(aligner)

====
